---------------------------- MODULE Spec2Model ----------------------------
(***************************************************************************)
(* A model of the graphing calculator of src/src/GraphingCalculator.js:    *)
(* the line classifier (the useMemo `compiled`), the coordinate transform, *)
(* niceStep, the viewport operations, the analysis, the session loader,    *)
(* the calls of the external providers, the pointer gestures and one cell  *)
(* of the implicit-curve renderer.                                         *)
(*                                                                         *)
(* A source line is a sequence of characters, each character a one-element *)
(* string; the three non-ASCII characters the classifier knows are written *)
(* THETA, LEQ and GEQ.  Numbers are binary floating-point numbers with a   *)
(* mantissa of Precision bits, rounded to nearest-even after every         *)
(* operation, and the IEEE specials NaN and +/-Infinity.                   *)
(***************************************************************************)
EXTENDS Integers, Sequences, FiniteSets, TLC

VARIABLES
  expressions,  \* useState: the ordered list of expression lines
  view,         \* useState: the visible rectangle {xMin, xMax, yMin, yMax}
  size,         \* useState: the canvas {width, height}
  now,          \* the clock read by Date.now()
  pointer,      \* `dragging` and `last` of the pointer handlers
  ops,          \* the number of viewport operations made so far
  probe         \* the argument and result of the pure function under check

vars == <<expressions, view, size, now, pointer, ops, probe>>

(***************************************************************************)
(* Bounds of the model.                                                    *)
(***************************************************************************)
MaxNow == 4        \* the last clock value of a run
MaxTyped == 1      \* keystrokes made after a text of the corpus
MaxOps == 2        \* viewport operations in a run
MaxCoord == 1      \* the largest numerator of a bound of a probed viewport
MaxDen == 2        \* the largest denominator of a bound of a probed viewport
MaxMantissa == 99  \* the largest mantissa m of a probed range m * 10^e
MaxDown == 14      \* the least exponent e of a probed range is -MaxDown
MaxUp == 2         \* the largest exponent e of a probed range
Precision == 8     \* bits of the mantissa of a number (53 in a double)
MaxFrac == 14      \* the smallest positive number is 2^-MaxFrac

\* The element of a set of one element.  `const x = v; return e` is written
\* The({ (e) : x \in {v} }): v is computed once, before e.
The(S) == CHOOSE r \in S : TRUE

(***************************************************************************)
(* Characters and strings.                                                 *)
(***************************************************************************)
THETA == "U+03B8"
LEQ == "U+2264"
GEQ == "U+2265"

Letters == {"a", "b", "e", "h", "i", "n", "s", "t", "x", "y", "r", "Y", "R"}
Digits == {"0", "1", "2", "3", "4", "5", "6", "7", "8", "9"}
WordChars == Letters \cup Digits \cup {"_"}

\* String.prototype.toLowerCase on one character (the /i flag of a regex).
Lower(c) == IF c = "Y" THEN "y" ELSE IF c = "R" THEN "r" ELSE c

IsSpace(c) == c = " "

DigitVal(c) ==
  CASE c = "0" -> 0 [] c = "1" -> 1 [] c = "2" -> 2 [] c = "3" -> 3
    [] c = "4" -> 4 [] c = "5" -> 5 [] c = "6" -> 6 [] c = "7" -> 7
    [] c = "8" -> 8 [] OTHER -> 9

\* s.slice(i) with i counted from 0 as in JavaScript.
SliceFrom(s, i) == SubSeq(s, i + 1, Len(s))

\* s.slice(i, j) with i, j counted from 0.
Slice(s, i, j) == SubSeq(s, i + 1, j)

\* Whether pat occurs in s at the 0-based position i.
MatchAt(s, pat, i) ==
  /\ i >= 0
  /\ i + Len(pat) <= Len(s)
  /\ \A k \in 1..Len(pat) : s[i + k] = pat[k]

\* s.indexOf(pat): the least 0-based position of pat in s, or -1.
IndexOf(s, pat) ==
  LET hits == {i \in 0..Len(s) : MatchAt(s, pat, i)}
  IN IF hits = {} THEN -1 ELSE CHOOSE i \in hits : \A j \in hits : i <= j

\* s.indexOf(pat, from).
IndexOfFrom(s, pat, from) ==
  LET hits == {i \in from..Len(s) : MatchAt(s, pat, i)}
  IN IF hits = {} THEN -1 ELSE CHOOSE i \in hits : \A j \in hits : i <= j

Includes(s, pat) == IndexOf(s, pat) # -1

StartsWith(s, pat) == MatchAt(s, pat, 0)

\* s.trim()
Trim(s0) ==
  The({ (The({ (IF keep = {} THEN <<>>
      ELSE LET lo == CHOOSE i \in keep : \A j \in keep : i <= j
               hi == CHOOSE i \in keep : \A j \in keep : j <= i
           IN SubSeq(s, lo, hi)) : keep \in {{i \in 1..Len(s) : ~IsSpace(s[i])}} })) : s \in {s0} })

RECURSIVE ReplaceTheta(_)
\* src0.replace(/THETA/g, "theta")
ReplaceTheta(s0) ==
  The({ (IF s = <<>> THEN <<>>
    ELSE (IF Head(s) = THETA THEN <<"t", "h", "e", "t", "a">> ELSE <<Head(s)>>)
         \o ReplaceTheta(Tail(s))) : s \in {s0} })

RECURSIVE ReplaceSemis(_)
\* src.replace(/;/g, ",")
ReplaceSemis(s0) ==
  The({ (IF s = <<>> THEN <<>>
    ELSE <<IF Head(s) = ";" THEN "," ELSE Head(s)>> \o ReplaceSemis(Tail(s))) : s \in {s0} })

RECURSIVE SplitComma(_)
\* s.split(","): the parts between the commas, in order (at least one part).
SplitComma(s0) ==
  The({ (The({ (IF i = -1 THEN <<s>>
      ELSE <<Slice(s, 0, i)>> \o SplitComma(SliceFrom(s, i + 1))) : i \in {IndexOf(s, <<",">>)} })) : s \in {s0} })

RECURSIVE SplitEq(_)
\* s.split("=")
SplitEq(s0) ==
  The({ (The({ (IF i = -1 THEN <<s>>
      ELSE <<Slice(s, 0, i)>> \o SplitEq(SliceFrom(s, i + 1))) : i \in {IndexOf(s, <<"=">>)} })) : s \in {s0} })

\* The regex test /\bW\b/ for a word W made of word characters.
HasWord(s, w) ==
  \E i \in 0..Len(s) :
    /\ MatchAt(s, w, i)
    /\ (i = 0 \/ s[i] \notin WordChars)
    /\ (i + Len(w) = Len(s) \/ s[i + Len(w) + 1] \notin WordChars)

\* The 0-based position after the run of whitespace that starts at i.
RECURSIVE SkipSpaces(_, _)
SkipSpaces(s, i) ==
  IF i < Len(s) /\ IsSpace(s[i + 1]) THEN SkipSpaces(s, i + 1) ELSE i

(***************************************************************************)
(* Numbers: a JavaScript number is [k, n, d], k = "num" for the rational   *)
(* n/d in lowest terms with d > 0, k = "nan" for NaN, k = "inf" for        *)
(* n * Infinity (n = 1 or -1).  The negative zero is not distinguished.    *)
(* The finite numbers are the rationals m * 2^e with |m| < 2^Precision;    *)
(* the range of the exponent is not bounded.  XAdd, XMul and XDiv are the  *)
(* exact results, RAdd, RSub, RMul and RDiv the rounded ones of the        *)
(* operators + - * / of the language.                                      *)
(***************************************************************************)
Abs(i) == IF i < 0 THEN -i ELSE i
Sgn(i) == IF i < 0 THEN -1 ELSE IF i > 0 THEN 1 ELSE 0

RECURSIVE Gcd(_, _)
Gcd(a, b) == IF b = 0 THEN a ELSE Gcd(b, a % b)

NaN == [k |-> "nan", n |-> 0, d |-> 1]
Inf(s) == [k |-> "inf", n |-> s, d |-> 1]

\* The rational n/d, d # 0, in lowest terms.
Rat(n0, d0) ==
  The({ (The({ ([k |-> "num", n |-> Sgn(d) * (n \div g), d |-> Abs(d) \div g]) : g \in {Gcd(Abs(n), Abs(d))} })) : n \in {n0}, d \in {d0} })

Int2Num(i) == [k |-> "num", n |-> i, d |-> 1]

\* Number.isFinite
IsFinite(a) == a.k = "num"

RNeg(a) == IF a.k = "nan" THEN NaN ELSE [a EXCEPT !.n = -a.n]

XAdd(a, b) ==
  IF a.k = "nan" \/ b.k = "nan" THEN NaN
  ELSE IF a.k = "inf" /\ b.k = "inf" THEN (IF a.n = b.n THEN a ELSE NaN)
  ELSE IF a.k = "inf" THEN a
  ELSE IF b.k = "inf" THEN b
  ELSE LET g == Gcd(a.d, b.d)
       IN Rat(a.n * (b.d \div g) + b.n * (a.d \div g), (a.d \div g) * b.d)

XMul(a, b) ==
  IF a.k = "nan" \/ b.k = "nan" THEN NaN
  ELSE IF a.k = "inf" \/ b.k = "inf"
       THEN (IF a.n = 0 \/ b.n = 0 THEN NaN ELSE Inf(Sgn(a.n) * Sgn(b.n)))
  ELSE LET g1 == Gcd(Abs(a.n), b.d)
           g2 == Gcd(Abs(b.n), a.d)
       IN Rat((a.n \div g1) * (b.n \div g2), (a.d \div g2) * (b.d \div g1))

XDiv(a, b) ==
  IF a.k = "nan" \/ b.k = "nan" THEN NaN
  ELSE IF a.k = "inf" THEN (IF b.k = "inf" THEN NaN
                            ELSE Inf(a.n * (IF b.n < 0 THEN -1 ELSE 1)))
  ELSE IF b.k = "inf" THEN Int2Num(0)
  ELSE IF b.n = 0 THEN (IF a.n = 0 THEN NaN ELSE Inf(Sgn(a.n)))
  ELSE XMul(a, Rat(b.d, b.n))

RECURSIVE Pow2(_)
Pow2(k) == IF k = 0 THEN 1 ELSE 2 * Pow2(k - 1)

\* The integer nearest to the rational n/d >= 0, the even one on a tie.
RoundEven(n, d) ==
  LET f == n \div d
      r2 == 2 * (n % d)
  IN IF r2 < d THEN f
     ELSE IF r2 > d THEN f + 1
     ELSE IF f % 2 = 0 THEN f ELSE f + 1

\* The mantissa m of a number m * 2^e is in MantissaLow..(MantissaEnd - 1).
MantissaEnd == Pow2(Precision)
MantissaLow == Pow2(Precision - 1)

RECURSIVE ShiftOf(_, _, _)
\* n/d > 0 scaled by 2^k, k of either sign, so that its integer part has
\* Precision bits: [n, d, k] with MantissaLow <= n/d < MantissaEnd.  k stops
\* at MaxFrac: a number below 2^(Precision - 1 - MaxFrac) keeps fewer bits
\* (gradual underflow, at 2^-1074 in a double).
ShiftOf(n, d, k) ==
  IF n \div d >= MantissaEnd THEN ShiftOf(n, 2 * d, k - 1)
  ELSE IF n \div d < MantissaLow /\ k < MaxFrac
       THEN (IF d % 2 = 0 THEN ShiftOf(n, d \div 2, k + 1) ELSE ShiftOf(2 * n, d, k + 1))
  ELSE [n |-> n, d |-> d, k |-> k]

\* The number nearest to n/d > 0: n/d is scaled, rounded to an integer and
\* scaled back.
RoundPos(n, d) ==
  The({ (The({ (IF s.k >= 0 THEN Rat(m, Pow2(s.k)) ELSE Int2Num(m * Pow2(-s.k))) : m \in {RoundEven(s.n, s.d)} })) : s \in {ShiftOf(n, d, 0)} })

\* The rounding of an exact result to a number.
Round(exact) ==
  The({ (IF a.k # "num" \/ a.n = 0 THEN a
    ELSE IF a.n < 0 THEN RNeg(RoundPos(-a.n, a.d))
    ELSE RoundPos(a.n, a.d)) : a \in {exact} })

RAdd(a, b) == The({ (Round(XAdd(x, y))) : x \in {a}, y \in {b} })
RSub(a, b) == The({ (Round(XAdd(x, RNeg(y)))) : x \in {a}, y \in {b} })
RMul(a, b) == The({ (Round(XMul(x, y))) : x \in {a}, y \in {b} })
RDiv(a, b) == The({ (Round(XDiv(x, y))) : x \in {a}, y \in {b} })

\* The number a decimal literal n/d denotes.
Lit(n, d) == Round(Rat(n, d))

\* a < b; false when either is NaN.
RLt(a0, b0) ==
  \E a \in {a0} : \E b \in {b0} :
    IF a.k = "nan" \/ b.k = "nan" THEN FALSE
    ELSE IF a.k = "inf" THEN a.n = -1 /\ ~(b.k = "inf" /\ b.n = -1)
    ELSE IF b.k = "inf" THEN b.n = 1
    ELSE a.n * b.d < b.n * a.d

REq(a, b) == a.k # "nan" /\ b.k # "nan" /\ a = b
RLe(a, b) == RLt(a, b) \/ REq(a, b)

\* Math.min and Math.max
RMin(a0, b0) ==
  The({ (IF a.k = "nan" \/ b.k = "nan" THEN NaN ELSE IF RLt(b, a) THEN b ELSE a) : a \in {a0}, b \in {b0} })
RMax(a0, b0) ==
  The({ (IF a.k = "nan" \/ b.k = "nan" THEN NaN ELSE IF RLt(a, b) THEN b ELSE a) : a \in {a0}, b \in {b0} })

\* Math.abs
RAbs(a) == IF a.k = "nan" THEN NaN ELSE [a EXCEPT !.n = Abs(a.n)]

(***************************************************************************)
(* compileExpr: parser.parse(src) of the expr-eval library, for the        *)
(* arithmetic fragment  numbers, names, + - * /, unary sign, parentheses   *)
(* and calls.  A tree is [t, name, val, kids]; the result of a parse is    *)
(* [ok, pos, ast] with pos the 0-based position after the text consumed.   *)
(***************************************************************************)
NoAst == [t |-> "none", name |-> <<>>, val |-> NaN, kids |-> <<>>]
Node(t, name, val, kids) == [t |-> t, name |-> name, val |-> val, kids |-> kids]
Fail(i) == [ok |-> FALSE, pos |-> i, ast |-> NoAst]
Ok(i, ast) == [ok |-> TRUE, pos |-> i, ast |-> ast]

\* Whether the token at i (after whitespace) is the character c.
NextIs(s, i, c) ==
  LET j == SkipSpaces(s, i) IN j < Len(s) /\ s[j + 1] = c

RECURSIVE ScanWhile(_, _, _)
\* The position after the longest run of characters of S starting at i.
ScanWhile(s, i, S) ==
  IF i < Len(s) /\ s[i + 1] \in S THEN ScanWhile(s, i + 1, S) ELSE i

RECURSIVE DecVal(_)
\* The value of a run of decimal digits.
DecVal(ds) ==
  IF ds = <<>> THEN 0
  ELSE 10 * DecVal(SubSeq(ds, 1, Len(ds) - 1)) + DigitVal(ds[Len(ds)])

RECURSIVE ParseExpr(_, _)
RECURSIVE ParseAddRest(_, _, _)
RECURSIVE ParseCmpRest(_, _, _)
RECURSIVE ParseTerm(_, _)
RECURSIVE ParseMulRest(_, _, _)
RECURSIVE ParseUnary(_, _)
RECURSIVE ParseCalls(_, _, _)
RECURSIVE ParseArgs(_, _, _)

\* A number, a name or a parenthesised expression.
ParseAtom(s, i0) ==
  LET i == SkipSpaces(s, i0)
  IN IF i >= Len(s) THEN Fail(i)
     ELSE IF s[i + 1] \in Digits
          THEN LET j == ScanWhile(s, i, Digits)
               IN Ok(j, Node("num", <<>>, Lit(DecVal(Slice(s, i, j)), 1), <<>>))
     ELSE IF s[i + 1] \in Letters \cup {"_"}
          THEN LET j == ScanWhile(s, i, WordChars)
               IN Ok(j, Node("var", Slice(s, i, j), NaN, <<>>))
     ELSE IF s[i + 1] = "("
          THEN The({ (IF r.ok /\ NextIs(s, r.pos, ")")
                 THEN Ok(SkipSpaces(s, r.pos) + 1, r.ast)
                 ELSE Fail(i)) : r \in {ParseExpr(s, i + 1)} })
     ELSE Fail(i)

\* The arguments of a call after its "(": expressions separated by commas.
ParseArgs(s, i, acc) ==
  The({ (IF ~r.ok THEN Fail(i)
    ELSE IF NextIs(s, r.pos, ",")
         THEN ParseArgs(s, SkipSpaces(s, r.pos) + 1, Append(acc, r.ast))
    ELSE IF NextIs(s, r.pos, ")")
         THEN Ok(SkipSpaces(s, r.pos) + 1, Node("args", <<>>, NaN, Append(acc, r.ast)))
    ELSE Fail(i)) : r \in {ParseExpr(s, i)} })

\* Any number of call suffixes "(args)" after an atom.
ParseCalls(s, i, callee) ==
  IF ~NextIs(s, i, "(") THEN Ok(i, callee)
  ELSE LET j == SkipSpaces(s, i) + 1
       IN IF NextIs(s, j, ")")
          THEN ParseCalls(s, SkipSpaces(s, j) + 1, Node("call", <<>>, NaN, <<callee>>))
          ELSE The({ (IF r.ok
                 THEN ParseCalls(s, r.pos, Node("call", <<>>, NaN, <<callee>> \o r.ast.kids))
                 ELSE Fail(i)) : r \in {ParseArgs(s, j, <<>>)} })

ParseUnary(s, i0) ==
  LET i == SkipSpaces(s, i0)
  IN IF i < Len(s) /\ s[i + 1] \in {"-", "+"}
     THEN The({ (IF r.ok
            THEN Ok(r.pos, IF s[i + 1] = "-" THEN Node("neg", <<>>, NaN, <<r.ast>>) ELSE r.ast)
            ELSE Fail(i)) : r \in {ParseUnary(s, i + 1)} })
     ELSE The({ (IF a.ok THEN ParseCalls(s, a.pos, a.ast) ELSE Fail(i)) : a \in {ParseAtom(s, i)} })

ParseMulRest(s, i, left) ==
  LET j == SkipSpaces(s, i)
  IN IF j < Len(s) /\ s[j + 1] \in {"*", "/"}
     THEN The({ (IF r.ok
            THEN ParseMulRest(s, r.pos, Node("bin", <<s[j + 1]>>, NaN, <<left, r.ast>>))
            ELSE Fail(j)) : r \in {ParseUnary(s, j + 1)} })
     ELSE Ok(i, left)

ParseTerm(s, i) ==
  The({ (IF r.ok THEN ParseMulRest(s, r.pos, r.ast) ELSE Fail(i)) : r \in {ParseUnary(s, i)} })

ParseAddRest(s, i, left) ==
  LET j == SkipSpaces(s, i)
  IN IF j < Len(s) /\ s[j + 1] \in {"+", "-"}
     THEN The({ (IF r.ok
            THEN ParseAddRest(s, r.pos, Node("bin", <<s[j + 1]>>, NaN, <<left, r.ast>>))
            ELSE Fail(j)) : r \in {ParseTerm(s, j + 1)} })
     ELSE Ok(i, left)

\* An additive expression.
ParseSum(s, i) ==
  The({ (IF r.ok THEN ParseAddRest(s, r.pos, r.ast) ELSE Fail(i)) : r \in {ParseTerm(s, i)} })

\* The comparison operator of the expression grammar at position j, or <<>>.
CmpTokenAt(s, j) ==
  IF MatchAt(s, <<"<", "=">>, j) THEN <<"<", "=">>
  ELSE IF MatchAt(s, <<">", "=">>, j) THEN <<">", "=">>
  ELSE IF MatchAt(s, <<"<">>, j) THEN <<"<">>
  ELSE IF MatchAt(s, <<">">>, j) THEN <<">">>
  ELSE <<>>

ParseCmpRest(s, i, left) ==
  LET j == SkipSpaces(s, i)
      op == CmpTokenAt(s, j)
  IN IF op # <<>>
     THEN The({ (IF r.ok
            THEN ParseCmpRest(s, r.pos, Node("cmp", op, NaN, <<left, r.ast>>))
            ELSE Fail(j)) : r \in {ParseSum(s, j + Len(op))} })
     ELSE Ok(i, left)

\* An expression: sums joined by comparisons.
ParseExpr(s, i) ==
  The({ (IF r.ok THEN ParseCmpRest(s, r.pos, r.ast) ELSE Fail(i)) : r \in {ParseSum(s, i)} })

\* compileExpr(src): the tree of src, or NoAst when parser.parse throws.
compileExpr(src) ==
  The({ (The({ (IF r.ok /\ SkipSpaces(s, r.pos) = Len(s) THEN r.ast ELSE NoAst) : r \in {ParseExpr(s, 0)} })) : s \in {src} })

Compiles(src) == compileExpr(src) # NoAst

(***************************************************************************)
(* ast.evaluate(bindings).  Throw is the result of an evaluation that      *)
(* raises (an undefined variable, a call of something that is no           *)
(* function).  The model has no value for the constant e nor for sin at a  *)
(* nonzero argument: no state of the model evaluates them.                 *)
(***************************************************************************)
Throw == [k |-> "throw", n |-> 0, d |-> 1]

N_x == <<"x">>
N_y == <<"y">>
N_t == <<"t">>
N_theta == <<"t", "h", "e", "t", "a">>
N_ans == <<"a", "n", "s">>
N_abs == <<"a", "b", "s">>
N_sin == <<"s", "i", "n">>

\* The functions of the parser that the model's letters can spell.
FunctionNames == {N_abs, N_sin}

\* true and false; arithmetic reads them as 1 and 0, Number.isFinite as
\* not a number.
Bool(b) == [k |-> "bool", n |-> IF b THEN 1 ELSE 0, d |-> 1]
ToNum(a) == IF a.k = "bool" THEN Int2Num(a.n) ELSE a

ApplyFn(name, arg) ==
  CASE name = N_abs -> RAbs(ToNum(arg))
    [] name = N_sin /\ arg = Int2Num(0) -> Int2Num(0)

BinOp(op, a, b) ==
  CASE op = "+" -> RAdd(ToNum(a), ToNum(b))
    [] op = "-" -> RSub(ToNum(a), ToNum(b))
    [] op = "*" -> RMul(ToNum(a), ToNum(b))
    [] op = "/" -> RDiv(ToNum(a), ToNum(b))

CmpOp(op, a, b) ==
  CASE op = <<"<">> -> Bool(RLt(ToNum(a), ToNum(b)))
    [] op = <<">">> -> Bool(RLt(ToNum(b), ToNum(a)))
    [] op = <<"<", "=">> -> Bool(RLe(ToNum(a), ToNum(b)))
    [] op = <<">", "=">> -> Bool(RLe(ToNum(b), ToNum(a)))

RECURSIVE Eval(_, _)
Eval(ast0, env0) ==
 The({ (CASE ast.t = "num" -> ast.val
    [] ast.t = "var" /\ ast.name \notin FunctionNames ->
         IF ast.name \in DOMAIN env THEN env[ast.name] ELSE Throw
    [] ast.t = "neg" ->
         The({ (IF a = Throw THEN Throw ELSE RNeg(ToNum(a))) : a \in {Eval(ast.kids[1], env)} })
    [] ast.t = "bin" ->
         The({ (The({ (IF a = Throw \/ b = Throw THEN Throw ELSE BinOp(ast.name[1], a, b)) : b \in {Eval(ast.kids[2], env)} })) : a \in {Eval(ast.kids[1], env)} })
    [] ast.t = "cmp" ->
         The({ (The({ (IF a = Throw \/ b = Throw THEN Throw ELSE CmpOp(ast.name, a, b)) : b \in {Eval(ast.kids[2], env)} })) : a \in {Eval(ast.kids[1], env)} })
    [] ast.t = "call" ->
         The({ (LET f == ast.kids[1]
           IN IF \E j \in DOMAIN args : args[j] = Throw THEN Throw
              ELSE IF f.t = "var" /\ f.name \in FunctionNames /\ Len(args) = 1
                   THEN ApplyFn(f.name, args[1])
              ELSE Throw) : args \in {[j \in 1..(Len(ast.kids) - 1) |-> Eval(ast.kids[j + 1], env)]} })) : ast \in {ast0}, env \in {env0} })

\* RESERVED, restricted to the names the model's letters can spell.
RESERVED ==
  { N_x, N_y, N_t, N_theta, N_ans, <<"e">>, N_sin, <<"t", "a", "n">>,
    <<"a", "s", "i", "n">>, <<"a", "t", "a", "n">>, N_abs,
    <<"s", "i", "n", "h">>, <<"t", "a", "n", "h">>,
    <<"a", "s", "i", "n", "h">>, <<"a", "t", "a", "n", "h">> }

RECURSIVE IdsFrom(_, _, _)
\* The matches of /[A-Za-z_][A-Za-z0-9_]*/g from position i on, not
\* reserved, without repetition, in order of first occurrence.
IdsFrom(s, i0, out0) ==
  The({ (IF i >= Len(s) THEN out
    ELSE IF s[i + 1] \in Letters \cup {"_"}
         THEN The({ (LET name == Slice(s, i, j)
                IN IdsFrom(s, j,
                     IF name \in RESERVED \/ \E q \in DOMAIN out : out[q] = name
                     THEN out ELSE Append(out, name))) : j \in {ScanWhile(s, i, WordChars)} })
         ELSE IdsFrom(s, i + 1, out)) : i \in {i0}, out \in {out0} })

detectParams(src) == The({ (IdsFrom(s, 0, <<>>)) : s \in {src} })

SeqRange(q) == {q[i] : i \in DOMAIN q}

\* { ...baseParams, ...(e.params || {}) }: every detected name is 1 unless set.
ParamsOf(e) ==
  LET names == SeqRange(detectParams(e.src))
  IN [nm \in names \cup DOMAIN e.params |->
        IF nm \in DOMAIN e.params THEN e.params[nm] ELSE Int2Num(1)]

(***************************************************************************)
(* The matching steps of the classifier (the regular expressions and       *)
(* string searches of the useMemo `compiled`).  A match is [ok, ...].      *)
(***************************************************************************)
\* {...params, ans} and {...params, ans, x}: later keys win.
EnvAns(params, ans) == (N_ans :> ans) @@ params
EnvVar(params, ans, name, v) == (name :> v) @@ (N_ans :> ans) @@ params

\* try { v = compileExpr(text).evaluate({...params, ans}) } catch { }:
\* the value, or dflt when the parse or the evaluation throws.  An absent
\* text (undefined) makes compileExpr throw.
Undefined == <<"undefined">>
TryEval(text, params, ans, dflt) ==
  IF text = Undefined THEN dflt
  ELSE The({ (IF ast = NoAst THEN dflt
         ELSE The({ (IF v = Throw THEN dflt ELSE v) : v \in {Eval(ast, EnvAns(params, ans))} })) : ast \in {compileExpr(text)} })

\* src.match(/^\s*y\s*=\s*(.+)$/i); g is group 1.
MatchY(src) ==
  IF Len(src) >= 1 /\ Lower(src[1]) = "y"
  THEN LET j == SkipSpaces(src, 1)
       IN IF j < Len(src) /\ src[j + 1] = "="
          THEN LET k == SkipSpaces(src, j + 1)
               IN IF k < Len(src)
                  THEN [ok |-> TRUE, g |-> SliceFrom(src, k)]
                  ELSE [ok |-> FALSE, g |-> <<>>]
          ELSE [ok |-> FALSE, g |-> <<>>]
  ELSE [ok |-> FALSE, g |-> <<>>]

\* The end of the run of characters other than "," and ";" starting at i.
RECURSIVE ScanUntil(_, _, _)
ScanUntil(s, i, stops) ==
  IF i < Len(s) /\ s[i + 1] \notin stops THEN ScanUntil(s, i + 1, stops) ELSE i

\* /\br\s*=\s*([^,;]+)/i tried at position i: the start of group 1, or -1.
\* The \s* before the group gives one blank back when nothing else follows.
PolarAt(src, i) ==
  IF /\ i < Len(src)
     /\ Lower(src[i + 1]) = "r"
     /\ (i = 0 \/ src[i] \notin WordChars)
  THEN LET j == SkipSpaces(src, i + 1)
       IN IF j < Len(src) /\ src[j + 1] = "="
          THEN LET k == SkipSpaces(src, j + 1)
               IN IF k < Len(src) /\ src[k + 1] \notin {",", ";"} THEN k
                  ELSE IF k > j + 1 THEN k - 1
                  ELSE -1
          ELSE -1
  ELSE -1

\* src.match(/\br\s*=\s*([^,;]+)/i): the leftmost match.
MatchR(src) ==
  LET hits == {i \in 0..Len(src) : PolarAt(src, i) # -1}
  IN IF hits = {} THEN [ok |-> FALSE, g |-> <<>>]
     ELSE LET i == CHOOSE h \in hits : \A h2 \in hits : h <= h2
              k == PolarAt(src, i)
          IN [ok |-> TRUE, g |-> Slice(src, k, ScanUntil(src, k + 1, {",", ";"}))]

\* /theta\s*(?:in|=)\s*\[\s*([^,\]]+)\s*,\s*([^\]]+)\s*\]/i tried at i.
RangeAt(src, i) ==
  IF MatchAt(src, N_theta, i)
  THEN LET j == SkipSpaces(src, i + 5)
           k == IF MatchAt(src, <<"i", "n">>, j) THEN j + 2
                ELSE IF MatchAt(src, <<"=">>, j) THEN j + 1 ELSE -1
       IN IF k = -1 THEN [ok |-> FALSE, a |-> <<>>, b |-> <<>>]
          ELSE LET lb == SkipSpaces(src, k)
                   c == ScanUntil(src, lb + 1, {",", "]"})
                   rb == ScanUntil(src, c + 1, {"]"})
               IN IF /\ MatchAt(src, <<"[">>, lb)
                     /\ c > lb + 1 /\ MatchAt(src, <<",">>, c)
                     /\ rb > c + 1 /\ MatchAt(src, <<"]">>, rb)
                  THEN [ok |-> TRUE, a |-> Slice(src, lb + 1, c), b |-> Slice(src, c + 1, rb)]
                  ELSE [ok |-> FALSE, a |-> <<>>, b |-> <<>>]
  ELSE [ok |-> FALSE, a |-> <<>>, b |-> <<>>]

MatchRange(src) ==
  LET hits == {i \in 0..Len(src) : RangeAt(src, i).ok}
  IN IF hits = {} THEN [ok |-> FALSE, a |-> <<>>, b |-> <<>>]
     ELSE RangeAt(src, CHOOSE h \in hits : \A h2 \in hits : h <= h2)

\* The comparison operators, in the order the code lists them.
CmpOps == << <<"<", "=">>, <<">", "=">>, <<"<">>, <<">">>, <<LEQ>>, <<GEQ>> >>

\* norm(op)
norm(op) ==
  IF op = <<LEQ>> \/ op = <<"<", "=">> THEN "le"
  ELSE IF op = <<GEQ>> \/ op = <<">", "=">> THEN "ge"
  ELSE IF op = <<"<">> THEN "lt"
  ELSE "gt"

\* The alternation (<=|>=|<|>|LEQ|GEQ) at position i: the first operator of
\* the list that occurs there, or <<>>.
OpAt(s, i) ==
  LET fits == {q \in DOMAIN CmpOps : MatchAt(s, CmpOps[q], i)}
  IN IF fits = {} THEN <<>>
     ELSE CmpOps[CHOOSE q \in fits : \A q2 \in fits : q <= q2]

\* The leftmost operator at or after position from: [i, op], i = -1 if none.
NextOp(s, from) ==
  LET hits == {i \in from..Len(s) : OpAt(s, i) # <<>>}
  IN IF hits = {} THEN [i |-> -1, op |-> <<>>]
     ELSE LET i == CHOOSE h \in hits : \A h2 \in hits : h <= h2
          IN [i |-> i, op |-> OpAt(s, i)]

\* src.match(/^(.*?)(<=|>=|<|>|LEQ|GEQ)(.*?)(<=|>=|<|>|LEQ|GEQ)(.*)$/)
MatchDouble(src) ==
  LET o1 == NextOp(src, 0)
      o2 == IF o1.i = -1 THEN o1 ELSE NextOp(src, o1.i + Len(o1.op))
  IN IF o1.i = -1 \/ o2.i = -1
     THEN [ok |-> FALSE, A |-> <<>>, op1 |-> <<>>, B |-> <<>>, op2 |-> <<>>, C |-> <<>>]
     ELSE [ok |-> TRUE, A |-> Slice(src, 0, o1.i), op1 |-> o1.op,
           B |-> Slice(src, o1.i + Len(o1.op), o2.i), op2 |-> o2.op,
           C |-> SliceFrom(src, o2.i + Len(o2.op))]

\* FindCmp with the later operator of the list on a tie.
FindCmpLast(src) ==
  LET found == {q \in DOMAIN CmpOps : IndexOf(src, CmpOps[q]) # -1}
  IN IF found = {} THEN [i |-> -1, o |-> <<>>]
     ELSE LET q == CHOOSE a \in found : \A b \in found :
                     \/ IndexOf(src, CmpOps[a]) < IndexOf(src, CmpOps[b])
                     \/ IndexOf(src, CmpOps[a]) = IndexOf(src, CmpOps[b]) /\ a >= b
          IN [i |-> IndexOf(src, CmpOps[q]), o |-> CmpOps[q]]

\* ops.map(o => ({o, i: src.indexOf(o)})).filter(x => x.i !== -1)
\*    .sort((a, b) => a.i - b.i)[0]: the entry of least index, the earlier
\* operator of the list on a tie (the sort is stable).
FindCmp(src) ==
  LET found == {q \in DOMAIN CmpOps : IndexOf(src, CmpOps[q]) # -1}
  IN IF found = {} THEN [i |-> -1, o |-> <<>>]
     ELSE LET q == CHOOSE a \in found : \A b \in found :
                     \/ IndexOf(src, CmpOps[a]) < IndexOf(src, CmpOps[b])
                     \/ IndexOf(src, CmpOps[a]) = IndexOf(src, CmpOps[b]) /\ a <= b
          IN [i |-> IndexOf(src, CmpOps[q]), o |-> CmpOps[q]]

(***************************************************************************)
(* The useMemo `compiled`: one record per line.  A closure over parsed     *)
(* trees is the tree it evaluates (F = L - R is the tree of L - R); a null *)
(* function is NoAst.  fn holds fn, fr, fx, F or F1, fn2 holds fy or F2,   *)
(* lo and hi hold tmin/tmax or thmin/thmax.                                *)
(***************************************************************************)
ParseError == "Parse error"        \* err?.message || "Parse error"
OneEqError == "Only one '=' allowed"

\* 2 * Math.PI, to seven digits.
TwoPi == Lit(710, 113)

Diff(L, R) == Node("bin", <<"-">>, NaN, <<L, R>>)

Entry(e, kind, fn, fn2, op, op2, lo, hi, value, error) ==
  [ id |-> e.id, src |-> e.src, visible |-> e.visible, domain |-> e.domain,
    includeIntersect |-> e.includeIntersect,
    kind |-> kind, fn |-> fn, fn2 |-> fn2, op |-> op, op2 |-> op2,
    lo |-> lo, hi |-> hi, value |-> value,
    params |-> ParamsOf(e), paramNames |-> detectParams(e.src), error |-> error ]

\* The branch "y = ...".
ExplicitOf(e, text) ==
  The({ (IF ast # NoAst
    THEN Entry(e, "explicit", ast, NoAst, "", "", NaN, NaN, NaN, "")
    ELSE Entry(e, "explicit", NoAst, NoAst, "", "", NaN, NaN, NaN, ParseError)) : ast \in {compileExpr(text)} })

\* The branch "polar r = f(theta)".
PolarOf(e, src, g, ans) ==
  The({ (LET thmin == IF m.ok THEN TryEval(m.a, ParamsOf(e), ans, Int2Num(0)) ELSE Int2Num(0)
        thmax == IF m.ok THEN TryEval(m.b, ParamsOf(e), ans, TwoPi) ELSE TwoPi
    IN IF ar # NoAst
       THEN Entry(e, "polar", ar, NoAst, "", "", thmin, thmax, NaN, "")
       ELSE Entry(e, "polar", NoAst, NoAst, "", "", Int2Num(0), TwoPi, NaN, ParseError)) : ar \in {compileExpr(g)}, m \in {MatchRange(src)} })

\* /^t\s*=\s*\[/.test(p)
IsTRange(p) ==
  /\ StartsWith(p, N_t)
  /\ LET j == SkipSpaces(p, 1)
     IN /\ MatchAt(p, <<"=">>, j)
        /\ MatchAt(p, <<"[">>, SkipSpaces(p, j + 1))

RECURSIVE ScanParts(_, _, _, _, _)
\* The loop over the parts of a parametric line; acc is
\* [xPart, yPart, tmin, tmax], a null part being the empty text.
ScanParts(parts, i, acc0, params, ans) ==
  IF i > Len(parts) THEN acc0
  ELSE The({ (LET lb == IndexOf(p, <<"[">>)
             rb == IndexOf(p, <<"]">>)
             ab == SplitComma(Slice(p, lb + 1, rb))
             a == ab[1]
             b == IF Len(ab) >= 2 THEN ab[2] ELSE Undefined
             next ==
               IF StartsWith(p, <<"x", "=">>) THEN [acc EXCEPT !.xPart = SliceFrom(p, 2)]
               ELSE IF StartsWith(p, <<"y", "=">>) THEN [acc EXCEPT !.yPart = SliceFrom(p, 2)]
               ELSE IF IsTRange(p) /\ lb # -1 /\ rb # -1 /\ rb > lb
                    THEN [acc EXCEPT !.tmin = TryEval(a, params, ans, acc.tmin),
                                     !.tmax = TryEval(b, params, ans, acc.tmax)]
               ELSE acc
         IN ScanParts(parts, i + 1, next, params, ans)) : p \in {Trim(parts[i])}, acc \in {acc0} })

\* The parts of a parametric line after the loop.
ParametricParts(e, src, ans) ==
  The({ (ScanParts(parts, 1,
              [xPart |-> <<>>, yPart |-> <<>>, tmin |-> Int2Num(-10), tmax |-> Int2Num(10)],
              params, ans)) : parts \in {SplitComma(ReplaceSemis(src))}, params \in {ParamsOf(e)} })

\* ParametricOf keeping the function of the part that compiles.
ParametricOfPartial(e, pp) ==
  The({ (IF ax # NoAst /\ ay # NoAst
    THEN Entry(e, "parametric", ax, ay, "", "", pp.tmin, pp.tmax, NaN, "")
    ELSE Entry(e, "parametric", ax, ay, "", "", Int2Num(-10), Int2Num(10), NaN, ParseError)) : ax \in {compileExpr(pp.xPart)}, ay \in {compileExpr(pp.yPart)} })

\* The branch "parametric x(t), y(t)" when both parts are present.
ParametricOf(e, pp) ==
  The({ (IF ax # NoAst /\ ay # NoAst
    THEN Entry(e, "parametric", ax, ay, "", "", pp.tmin, pp.tmax, NaN, "")
    ELSE Entry(e, "parametric", NoAst, NoAst, "", "", Int2Num(-10), Int2Num(10), NaN, ParseError)) : ax \in {compileExpr(pp.xPart)}, ay \in {compileExpr(pp.yPart)} })

\* The branch "double inequality A op1 B op2 C".
DoubleOf(e, m) ==
  The({ (The({ (IF A # NoAst /\ B # NoAst /\ C # NoAst
      THEN Entry(e, "double-ineq", Diff(A, B), Diff(B, C), norm(m.op1), norm(m.op2), NaN, NaN, NaN, "")
      ELSE Entry(e, "double-ineq", NoAst, NoAst, "le", "le", NaN, NaN, NaN, ParseError)) : C \in {compileExpr(m.C)} })) : A \in {compileExpr(m.A)}, B \in {compileExpr(m.B)} })

\* The branch "single inequality".
InequalityOf(e, src, cmp) ==
  The({ (LET op == IF cmp.o = <<LEQ>> \/ cmp.o = <<"<", "=">> THEN "le"
              ELSE IF cmp.o = <<GEQ>> \/ cmp.o = <<">", "=">> THEN "ge"
              ELSE IF cmp.o = <<"<">> THEN "lt" ELSE "gt"
    IN IF L # NoAst /\ R # NoAst
       THEN Entry(e, "inequality", Diff(L, R), NoAst, op, "", NaN, NaN, NaN, "")
       ELSE Entry(e, "inequality", NoAst, NoAst, "le", "", NaN, NaN, NaN, ParseError)) : L \in {compileExpr(Slice(src, 0, cmp.i))}, R \in {compileExpr(SliceFrom(src, cmp.i + Len(cmp.o)))} })

\* The branch "implicit equality with x & y present".
ImplicitOf(e, src) ==
  The({ (IF Len(parts) # 2
    THEN Entry(e, "implicit", NoAst, NoAst, "", "", NaN, NaN, NaN, OneEqError)
    ELSE The({ (IF L # NoAst /\ R # NoAst
           THEN Entry(e, "implicit", Diff(L, R), NoAst, "", "", NaN, NaN, NaN, "")
           ELSE Entry(e, "implicit", NoAst, NoAst, "", "", NaN, NaN, NaN, ParseError)) : L \in {compileExpr(parts[1])}, R \in {compileExpr(parts[2])} })) : parts \in {SplitEq(src)} })

\* The value of a calculator line: Throw when the parse or the evaluation
\* raises, otherwise the value, NaN in place of a non-finite one.
ScalarValue(e, src, ans) ==
  The({ (The({ (IF value = Throw THEN Throw ELSE IF IsFinite(value) THEN value ELSE NaN) : value \in {IF ast = NoAst THEN Throw ELSE Eval(ast, EnvAns(ParamsOf(e), ans))} })) : ast \in {compileExpr(src)} })

\* The branch "calculator line".
ScalarOf(e, src, ans) ==
  The({ (IF finite # Throw
     THEN Entry(e, "scalar", NoAst, NoAst, "", "", NaN, NaN, finite, "")
     ELSE Entry(e, "scalar", NoAst, NoAst, "", "", NaN, NaN, NaN, ParseError)) : finite \in {ScalarValue(e, src, ans)} })

\* AnsAfterScalar without the test of finiteness.
AnsAfterScalarAny(c, ans) ==
  IF c.error = "" THEN c.value ELSE ans

\* if (Number.isFinite(finite)) ans = finite, where c is the record pushed
\* with value: finite; the catch branch leaves ans alone.
AnsAfterScalar(c, ans) ==
  IF c.error = "" /\ IsFinite(c.value) THEN c.value ELSE ans

\* One iteration of the loop of `compiled`: the record pushed for line e.
ClassifyLine(e0, ans0) ==
 The({ (The({ (LET hasX == HasWord(src, N_x)
      hasY == HasWord(src, N_y)
      hasT == HasWord(src, N_t)
      hasTh == HasWord(src, N_theta)
      hasEq == Includes(src, <<"=">>)
      mY == MatchY(src)
      mR == MatchR(src)
      pp == ParametricParts(e, src, ans)
      mDouble == MatchDouble(src)
      cmp == FindCmp(src)
  IN IF mY.ok THEN ExplicitOf(e, mY.g)
     ELSE IF mR.ok /\ hasTh THEN PolarOf(e, src, mR.g, ans)
     ELSE IF /\ Includes(src, <<"x", "=">>) /\ Includes(src, <<"y", "=">>) /\ hasT
             /\ pp.xPart # <<>> /\ pp.yPart # <<>>
          THEN ParametricOf(e, pp)
     ELSE IF mDouble.ok THEN DoubleOf(e, mDouble)
     ELSE IF cmp.i # -1 THEN InequalityOf(e, src, cmp)
     ELSE IF hasEq /\ hasX /\ hasY THEN ImplicitOf(e, src)
     ELSE IF ~hasX /\ ~hasY /\ ~hasT /\ ~hasTh /\ ~hasEq THEN ScalarOf(e, src, ans)
     ELSE ExplicitOf(e, src)) : src \in {ReplaceTheta(Trim(e.src))} })) : e \in {e0}, ans \in {ans0} })

\* The register ans after the iteration that pushed the record c.
AnsStep(c0, ans0) ==
  The({ (IF c.kind = "scalar" THEN AnsAfterScalar(c, ans) ELSE ans) : c \in {c0}, ans \in {ans0} })

RECURSIVE CompileFromPoisoned(_, _, _, _)
\* CompileFrom with every line after a failed line failing too.
CompileFromPoisoned(exprs, i, ans, out) ==
  IF i > Len(exprs) THEN [out |-> out, ans |-> ans]
  ELSE The({ The({ (LET poisoned == out # <<>> /\ out[Len(out)].error # ""
         IN CompileFromPoisoned(exprs, i + 1, next,
              Append(out, IF poisoned
                          THEN [c EXCEPT !.fn = NoAst, !.fn2 = NoAst, !.error = ParseError]
                          ELSE c))) : c \in {cl}, next \in {AnsStep(cl, ans)} }) : cl \in {ClassifyLine(exprs[i], ans)} })

RECURSIVE CompileFrom(_, _, _, _)
\* let ans = 0; const out = []; for (const raw of expressions) { ... }
CompileFrom(exprs, i, ans, out) ==
  IF i > Len(exprs) THEN [out |-> out, ans |-> ans]
  ELSE The({ The({ (CompileFrom(exprs, i + 1, next, Append(out, c))) : next \in {AnsStep(c, ans)} }) : c \in {ClassifyLine(exprs[i], ans)} })

CompileAll(exprs) == The({ (CompileFrom(es, 1, Int2Num(0), <<>>)) : es \in {exprs} })

\* The value of the useMemo for the current list.
compiled == CompileAll(expressions).out

\* The variable ans when the loop has ended: the value every closure reads.
ansFinal == CompileAll(expressions).ans

\* The function or functions a kind needs to be drawn, all present.
HasFn(c) ==
  CASE c.kind \in {"double-ineq", "parametric"} -> c.fn # NoAst /\ c.fn2 # NoAst
    [] c.kind \in {"explicit", "polar", "inequality", "implicit"} -> c.fn # NoAst
    [] OTHER -> FALSE

\* The draw effect: the lines one of its branches draws.
Drawn(cs) ==
  {i \in DOMAIN cs : cs[i].visible /\ cs[i].error = "" /\ HasFn(cs[i])}

\* Explicits without the test of visibility.
ExplicitsShown(cs) ==
  {i \in DOMAIN cs : cs[i].kind = "explicit" /\ cs[i].fn # NoAst /\ cs[i].error = ""}

\* The lines the analysis runs over (`explicits`).
Explicits(cs) ==
  {i \in DOMAIN cs : /\ cs[i].visible /\ cs[i].kind = "explicit"
                     /\ cs[i].fn # NoAst /\ cs[i].error = ""}

(***************************************************************************)
(* The texts the user enters: whole lines (typed, pasted or chosen from    *)
(* the presets) and single keystrokes at the end of a line.                *)
(***************************************************************************)
Corpus ==
  {
    <<"s", "i", "n", "(", "x", ")">>,   \* sin(x)
    <<"y", "=", "x">>,   \* y=x
    <<"Y", " ", "=", " ", "2", "*", "x", "+", "1">>,   \* Y = 2*x+1
    <<"y", "=">>,   \* y=
    <<"y", "=", "x", "<", "1">>,   \* y=x<1
    <<"r", "=", "1", "+", "t", "h", "e", "t", "a">>,   \* r=1+theta
    <<"r", "=", "t", "h", "e", "t", "a", ",", "t", "h", "e", "t", "a", "=", "[", "0", ",", "2", "]">>,   \* r=theta,theta=[0,2]
    <<"r", "=", THETA>>,   \* r=THETA
    <<"r", "=", "2">>,   \* r=2
    <<"x", "=", "t", ",", "y", "=", "t">>,   \* x=t,y=t
    <<"x", "=", "t", ",", "y", "=", "t", ",", "t", "=", "[", "0", ",", "2", "]">>,   \* x=t,y=t,t=[0,2]
    <<"x", "=", "t", ";", "y", "=", "2", "*", "t", ";", "t", "=", "[", "1", "]">>,   \* x=t;y=2*t;t=[1]
    <<"x", "=", "t", " ", "y", "=", "t">>,   \* x=t y=t
    <<"x", "=", ",", "y", "=", "t">>,   \* x=,y=t
    <<"x", "=", "t", ",", "y", "=", ")">>,   \* x=t,y=)
    <<"1", "<", "x", "<", "2">>,   \* 1<x<2
    <<"1", "<", "=", "x", "*", "x", "+", "y", "*", "y", "<", "=", "4">>,   \* 1<=x*x+y*y<=4
    <<"1", "<", "x", "<">>,   \* 1<x<
    <<"x", "*", "x", "+", "y", "*", "y", "<", "=", "4">>,   \* x*x+y*y<=4
    <<"y", ">", "2", "*", "x", "+", "1">>,   \* y>2*x+1
    <<"x", GEQ, "1">>,   \* xGEQ1
    <<"x", "<">>,   \* x<
    <<"x", "*", "x", "+", "y", "*", "y", "=", "4">>,   \* x*x+y*y=4
    <<"x", "=", "y", "=", "1">>,   \* x=y=1
    <<"x", "+", "y", "=">>,   \* x+y=
    <<"2", "+", "3", "*", "4">>,   \* 2+3*4
    <<"a", "n", "s", "+", "1">>,   \* ans+1
    <<"1", "/", "0">>,   \* 1/0
    <<"2", "+">>,   \* 2+
    <<"a", "+", "b">>,   \* a+b
    <<"x">>,   \* x
    <<"t">>,   \* t
    <<"a", "*", "x", "+", "a", "n", "s">>   \* a*x+ans
  }

\* The characters typed at the end of a line.
TypedChars == {"x", "y", "t", "=", "<", ",", "1", "+"}

\* The texts one keystroke away from src: a character typed at the end or
\* the last character deleted.
Keystrokes(src) ==
  {src \o <<c>> : c \in TypedChars}
    \cup (IF src = <<>> THEN {} ELSE {SubSeq(src, 1, Len(src) - 1)})

RECURSIVE TypedFrom(_, _)
\* The texts at most n keystrokes away from a text of S.
TypedFrom(S, n) ==
  IF n = 0 THEN S ELSE TypedFrom(S \cup UNION {Keystrokes(src) : src \in S}, n - 1)

\* The texts a single line is classified on.
LineTexts == TypedFrom(Corpus, MaxTyped)

\* The texts the lines of a list are drawn from.
ListTexts ==
  {
    <<"a", "*", "x", "+", "a", "n", "s">>,
    <<"2", "+", "3", "*", "4">>,
    <<"a", "n", "s", "+", "1">>,
    <<"1", "/", "0">>,
    <<"2", "+">>
  }

\* The values a parameter slider is moved to.
ParamValues == {Int2Num(2)}

\* The values of the register ans a single line is classified under.
AnsValues == {Int2Num(0), Int2Num(5)}

(***************************************************************************)
(* The state and the handlers of the expression list.  The colour and the  *)
(* line width of a line are left out: nothing modelled here reads them.    *)
(***************************************************************************)
NoParams == [nm \in {} |-> NaN]

NewLine(id, src) ==
  [ id |-> id, src |-> src, visible |-> TRUE, params |-> NoParams,
    domain |-> [use |-> FALSE, min |-> Int2Num(-10), max |-> Int2Num(10)],
    includeIntersect |-> TRUE ]

DefaultView == [xMin |-> Int2Num(-10), xMax |-> Int2Num(10),
                yMin |-> Int2Num(-6), yMax |-> Int2Num(6)]
DefaultSize == [width |-> 600, height |-> 380]
NoProbe == [f |-> "none"]

\* let dragging = false; let last = { x: 0, y: 0 }
NoDrag == [dragging |-> FALSE, last |-> [x |-> 0, y |-> 0]]

InitList ==
  /\ expressions = <<NewLine(1, <<"s", "i", "n", "(", "x", ")">>)>>
  /\ view = DefaultView
  /\ size = DefaultSize
  /\ now = 2
  /\ pointer = NoDrag
  /\ ops = 0
  /\ probe = NoProbe

\* setExpressions(arr => arr.map(e => e.id === id ? { ...e, ...patch } : e))
\* for a patch of the text.
PatchSrc(arr, id, src) ==
  [i \in DOMAIN arr |-> IF arr[i].id = id THEN [arr[i] EXCEPT !.src = src] ELSE arr[i]]

PatchVisible(arr, id, v) ==
  [i \in DOMAIN arr |-> IF arr[i].id = id THEN [arr[i] EXCEPT !.visible = v] ELSE arr[i]]

PatchParam(arr, id, name, value) ==
  [i \in DOMAIN arr |->
     IF arr[i].id = id
     THEN [arr[i] EXCEPT !.params = (name :> value) @@ arr[i].params]
     ELSE arr[i]]

RECURSIVE FilterOut(_, _)
\* arr.filter(e => e.id !== id)
FilterOut(arr, id) ==
  IF arr = <<>> THEN <<>>
  ELSE (IF Head(arr).id # id THEN <<Head(arr)>> ELSE <<>>) \o FilterOut(Tail(arr), id)

\* The handlers of the list.  addExpression reads the clock and leaves it to
\* the specification how far the clock has moved by the next event.
addExpression(text) ==
  /\ Trim(text) # <<>>
  /\ expressions' = Append(expressions, NewLine(now, Trim(text)))
  /\ UNCHANGED <<view, size, pointer, ops, probe>>

\* onChange of a line's input.
updateExprSrc(i, src) ==
  /\ expressions' = PatchSrc(expressions, expressions[i].id, src)
  /\ UNCHANGED <<view, size, now, pointer, ops, probe>>

\* The eye button of a line.
toggleVisible(i) ==
  /\ expressions' = PatchVisible(expressions, expressions[i].id, ~expressions[i].visible)
  /\ UNCHANGED <<view, size, now, pointer, ops, probe>>

updateParam(i, name, value) ==
  /\ expressions' = PatchParam(expressions, expressions[i].id, name, value)
  /\ UNCHANGED <<view, size, now, pointer, ops, probe>>

removeExpr(i) ==
  /\ expressions' = FilterOut(expressions, expressions[i].id)
  /\ UNCHANGED <<view, size, now, pointer, ops, probe>>

\* The user's actions on the list; two clicks on Add are at least one clock
\* tick apart.
NextList ==
  \/ \E text \in ListTexts : now < MaxNow /\ addExpression(text) /\ now' = now + 1
  \/ \E i \in DOMAIN expressions : \E src \in ListTexts : updateExprSrc(i, src)
  \/ \E i \in DOMAIN expressions : toggleVisible(i)
  \/ \E cs \in {compiled} : \E i \in DOMAIN expressions :
        \E name \in SeqRange(cs[i].paramNames) : \E v \in ParamValues :
          updateParam(i, name, v)
  \/ \E i \in DOMAIN expressions : removeExpr(i)

SpecList == InitList /\ [][NextList]_vars

(***************************************************************************)
(* One iteration of the classifier as a function of its inputs: the line   *)
(* and the value of ans it starts with.  probe.out is empty until the      *)
(* iteration has run, then holds the record pushed and the value of ans.   *)
(***************************************************************************)
InitClassify ==
  /\ expressions = <<NewLine(1, <<"s", "i", "n", "(", "x", ")">>)>>
  /\ view = DefaultView
  /\ size = DefaultSize
  /\ now = 2
  /\ pointer = NoDrag
  /\ ops = 0
  /\ \E src \in LineTexts, ans \in AnsValues, set \in BOOLEAN :
       LET e == NewLine(1, src)
           names == SeqRange(detectParams(src))
       IN probe = [ f |-> "classify",
                    e |-> IF set /\ names # {}
                          THEN [e EXCEPT !.params = [nm \in names |-> Int2Num(2)]]
                          ELSE e,
                    ans |-> ans, out |-> <<>> ]

ClassifyProbe ==
  /\ probe.f = "classify"
  /\ probe.out = <<>>
  /\ \E c \in {ClassifyLine(probe.e, probe.ans)} :
       probe' = [probe EXCEPT !.out = << [ c |-> c, ans |-> AnsStep(c, probe.ans) ] >>]
  /\ UNCHANGED <<expressions, view, size, now, pointer, ops>>

NextClassify == ClassifyProbe

SpecClassify == InitClassify /\ [][NextClassify]_vars

(***************************************************************************)
(* makeTransform: the record of the two scales and of the values its four  *)
(* closures capture; the closures are operators on that record.            *)
(***************************************************************************)
makeTransform(v, width, height) ==
  [ xScale |-> RDiv(width, RSub(v.xMax, v.xMin)),
    yScale |-> RDiv(height, RSub(v.yMax, v.yMin)),
    xMin |-> v.xMin, yMin |-> v.yMin, height |-> height ]

xToPx(t, x) == RMul(RSub(x, t.xMin), t.xScale)
yToPx(t, y) == RSub(t.height, RMul(RSub(y, t.yMin), t.yScale))
pxToX(t, px) == RAdd(RDiv(px, t.xScale), t.xMin)

\* pxToY without the flip of the axis.
pxToYUnflipped(t, py) == RAdd(RDiv(py, t.yScale), t.yMin)

pxToY(t, py) == RAdd(RDiv(RSub(t.height, py), t.yScale), t.yMin)

\* The transform of the current view and canvas.
Transform(v) == makeTransform(v, Int2Num(size.width), Int2Num(size.height))

(***************************************************************************)
(* The transform as a function of its inputs: a viewport, a canvas size, a *)
(* point of the viewport and a pixel of the canvas.                        *)
(***************************************************************************)
Coords == {Lit(n, d) : n \in (-MaxCoord)..MaxCoord, d \in 1..MaxDen}

\* The viewports probed: the default one and, for bounds a and b in Coords,
\* the ones that have them on one axis or on both.
ProbedViews ==
  {DefaultView}
    \cup { [xMin |-> a, xMax |-> b, yMin |-> a, yMax |-> b] : a \in Coords, b \in Coords }
    \cup { [DefaultView EXCEPT !.xMin = a, !.xMax = b] : a \in Coords, b \in Coords }
    \cup { [DefaultView EXCEPT !.yMin = a, !.yMax = b] : a \in Coords, b \in Coords }

ProbedSizes == {DefaultSize, [width |-> 7, height |-> 3]}

\* The point of [lo, hi] a part f of the way from lo.
PointAt(lo, hi, f) == RAdd(lo, RMul(f, RSub(hi, lo)))

PointParts == {Int2Num(0), Lit(1, 3), Int2Num(1)}

InitTransform ==
  /\ expressions = <<NewLine(1, <<"s", "i", "n", "(", "x", ")">>)>>
  /\ view = DefaultView
  /\ size = DefaultSize
  /\ now = 2
  /\ pointer = NoDrag
  /\ ops = 0
  /\ \E v \in ProbedViews, sz \in ProbedSizes, f \in PointParts, corner \in 0..2 :
       /\ RLt(v.xMin, v.xMax) /\ RLt(v.yMin, v.yMax)
       /\ probe = [ f |-> "transform", view |-> v,
                    width |-> Int2Num(sz.width), height |-> Int2Num(sz.height),
                    x |-> PointAt(v.xMin, v.xMax, f),
                    y |-> PointAt(v.yMin, v.yMax, f),
                    px |-> Int2Num(CASE corner = 0 -> 0 [] corner = 1 -> 1
                                     [] OTHER -> sz.width),
                    py |-> Int2Num(CASE corner = 0 -> 0 [] corner = 1 -> 1
                                     [] OTHER -> sz.height),
                    out |-> <<>> ]

TransformProbe ==
  /\ probe.f = "transform"
  /\ probe.out = <<>>
  /\ LET t == makeTransform(probe.view, probe.width, probe.height)
     IN probe' = [probe EXCEPT !.out =
          << [ x |-> pxToX(t, xToPx(t, probe.x)),
               y |-> pxToY(t, yToPx(t, probe.y)),
               px |-> xToPx(t, pxToX(t, probe.px)),
               py |-> yToPx(t, pxToY(t, probe.py)),
               bottom |-> yToPx(t, probe.view.yMin),
               top |-> yToPx(t, probe.view.yMax) ] >>]
  /\ UNCHANGED <<expressions, view, size, now, pointer, ops>>

NextTransform == TransformProbe

SpecTransform == InitTransform /\ [][NextTransform]_vars

(***************************************************************************)
(* niceStep, on decimal numbers [m, e] = m * 10^e with m >= 0, computed    *)
(* without rounding.                                                       *)
(***************************************************************************)
RECURSIVE DigitsOf(_)
\* The number of decimal digits of m > 0.
DigitsOf(m) == IF m < 10 THEN 1 ELSE 1 + DigitsOf(m \div 10)

RECURSIVE Pow10(_)
Pow10(k) == IF k = 0 THEN 1 ELSE 10 * Pow10(k - 1)

\* Math.floor(Math.log10(a)) for a > 0.
FloorLog10(a) == DigitsOf(a.m) - 1 + a.e

\* a < b for a, b > 0: by the order of magnitude, then by the mantissas
\* brought to the same exponent.
DecLt(a, b) ==
  IF FloorLog10(a) # FloorLog10(b) THEN FloorLog10(a) < FloorLog10(b)
  ELSE IF a.e >= b.e THEN a.m * Pow10(a.e - b.e) < b.m
  ELSE a.m < b.m * Pow10(b.e - a.e)

DecLe(a, b) == ~DecLt(b, a)

\* The literal 1e-12.
Tiny == [m |-> 1, e |-> -12]

\* niceStep with the middle candidate left out.
niceStepCoarse(range) ==
  LET rough == [m |-> range.m, e |-> range.e - 1]
      k == FloorLog10(IF DecLt(rough, Tiny) THEN Tiny ELSE rough)
  IN IF DecLe([m |-> 5, e |-> k], rough) THEN [m |-> 5, e |-> k]
     ELSE [m |-> 1, e |-> k]

\* function niceStep(range): r >= 5 is rough >= 5 * p, r >= 2 is rough >= 2 * p.
niceStep(range) ==
  LET rough == [m |-> range.m, e |-> range.e - 1]
      k == FloorLog10(IF DecLt(rough, Tiny) THEN Tiny ELSE rough)
  IN IF DecLe([m |-> 5, e |-> k], rough) THEN [m |-> 5, e |-> k]
     ELSE IF DecLe([m |-> 2, e |-> k], rough) THEN [m |-> 2, e |-> k]
     ELSE [m |-> 1, e |-> k]

InitNice ==
  /\ expressions = <<NewLine(1, <<"s", "i", "n", "(", "x", ")">>)>>
  /\ view = DefaultView
  /\ size = DefaultSize
  /\ now = 2
  /\ pointer = NoDrag
  /\ ops = 0
  /\ \E m \in 1..MaxMantissa, e \in (-MaxDown)..MaxUp :
       probe = [f |-> "niceStep", range |-> [m |-> m, e |-> e], out |-> <<>>]

NiceProbe ==
  /\ probe.f = "niceStep"
  /\ probe.out = <<>>
  /\ probe' = [probe EXCEPT !.out = <<niceStep(probe.range)>>]
  /\ UNCHANGED <<expressions, view, size, now, pointer, ops>>

NextNice == NiceProbe

SpecNice == InitNice /\ [][NextNice]_vars

(***************************************************************************)
(* The viewport operations.  A handler leaves `ops` to the specification.  *)
(***************************************************************************)
ZoomIn == Lit(9, 10)       \* 0.9
ZoomOut == Lit(11, 10)     \* 1.1
PadPart == Lit(1, 10)      \* 0.1
samples == 800

\* zoomAround with the origin as the fixed point, whatever (x, y) is.
zoomAroundOrigin(v, x0, y0, zoom) ==
  [ xMin |-> RMul(v.xMin, zoom), xMax |-> RMul(v.xMax, zoom),
    yMin |-> RMul(v.yMin, zoom), yMax |-> RMul(v.yMax, zoom) ]

\* The view zoomAround(x, y, zoom) sets from v.
zoomAround(v, x0, y0, zoom) ==
  LET newW == RMul(RSub(v.xMax, v.xMin), zoom)
      newH == RMul(RSub(v.yMax, v.yMin), zoom)
  IN The({ [ xMin |-> RSub(x, RMul(RSub(x, v.xMin), kx)),
             xMax |-> RAdd(x, RMul(RSub(v.xMax, x), kx)),
             yMin |-> RSub(y, RMul(RSub(y, v.yMin), ky)),
             yMax |-> RAdd(y, RMul(RSub(v.yMax, y), ky)) ] :
           x \in {x0}, y \in {y0},
           kx \in {RDiv(newW, RSub(v.xMax, v.xMin))},
           ky \in {RDiv(newH, RSub(v.yMax, v.yMin))} })

\* pointerdown at the canvas position (x, y); the long-press timer and the
\* labels are not part of the state.
onPointerDown(x, y) ==
  /\ pointer' = [dragging |-> TRUE, last |-> [x |-> x, y |-> y]]
  /\ UNCHANGED <<expressions, view, size, now, probe>>

onPointerUp ==
  /\ pointer' = [pointer EXCEPT !.dragging = FALSE]
  /\ UNCHANGED <<expressions, view, size, now, probe>>

\* pointermove to (x, y) while dragging: the view moves by the distance in
\* pixels over the scale of the current view.
onPointerMove(x, y) ==
  /\ pointer.dragging
  /\ LET dxPx == x - pointer.last.x
         dyPx == y - pointer.last.y
     IN \E t \in {Transform(view)} :
        \E dx \in {RDiv(Int2Num(-dxPx), t.xScale)} :
        \E dy \in {RDiv(Int2Num(dyPx), t.yScale)} :
          view' = [ xMin |-> RAdd(view.xMin, dx), xMax |-> RAdd(view.xMax, dx),
                    yMin |-> RAdd(view.yMin, dy), yMax |-> RAdd(view.yMax, dy) ]
  /\ pointer' = [pointer EXCEPT !.last = [x |-> x, y |-> y]]
  /\ UNCHANGED <<expressions, size, now, probe>>

\* wheel at the canvas position (mx, my); up is deltaY < 0.
onWheel(mx, my, up) ==
  /\ \E t \in {Transform(view)} :
       view' = zoomAround(view, pxToX(t, Int2Num(mx)), pxToY(t, Int2Num(my)),
                          IF up THEN ZoomIn ELSE ZoomOut)
  /\ UNCHANGED <<expressions, size, now, pointer, probe>>

\* The buttons "Zoom in" (f = 0.9) and "Zoom out" (f = 1.1).
zoomCenter(f) ==
  /\ LET cx == RDiv(RAdd(view.xMin, view.xMax), Int2Num(2))
         cy == RDiv(RAdd(view.yMin, view.yMax), Int2Num(2))
     IN view' = zoomAround(view, cx, cy, f)
  /\ UNCHANGED <<expressions, size, now, pointer, probe>>

resetView ==
  /\ view' = DefaultView
  /\ UNCHANGED <<expressions, size, now, pointer, probe>>

centerOn(x, y) ==
  /\ \E w \in {RSub(view.xMax, view.xMin)} : \E h \in {RSub(view.yMax, view.yMin)} :
        view' = [ xMin |-> RSub(x, RDiv(w, Int2Num(2))),
                  xMax |-> RAdd(x, RDiv(w, Int2Num(2))),
                  yMin |-> RSub(y, RDiv(h, Int2Num(2))),
                  yMax |-> RAdd(y, RDiv(h, Int2Num(2))) ]
  /\ UNCHANGED <<expressions, size, now, pointer, probe>>

\* e.fn(x) of a compiled explicit line: ast.evaluate({...params, ans, x}),
\* ans being the value the register has when the loop of `compiled` is over.
CallFn(c, ans, x) == Eval(c.fn, EnvVar(c.params, ans, N_x, x))

RECURSIVE FitFuncs(_, _, _, _, _)
\* The inner loop of fitToData at the sample x: acc is [yMin, yMax, threw].
FitFuncs(cs, ans, funcs, x, acc) ==
  IF funcs = {} THEN acc
  ELSE LET j == CHOOSE h \in funcs : \A h2 \in funcs : h <= h2
       IN The({ FitFuncs(cs, ans, funcs \ {j}, x, next) :
                next \in { The({ (IF y = Throw THEN [acc EXCEPT !.threw = TRUE]
                                  ELSE IF ~IsFinite(y) THEN acc
                                  ELSE [acc EXCEPT !.yMin = RMin(acc.yMin, y),
                                                   !.yMax = RMax(acc.yMax, y)]) :
                                 y \in {CallFn(cs[j], ans, x)} }) } })

RECURSIVE FitSamples(_, _, _, _, _, _, _)
\* The outer loop of fitToData over the samples lo..hi.  The least and the
\* greatest value do not depend on the order of the samples: the range is
\* halved instead of walked.
FitSamples(cs, ans, funcs, xMin, step, lo, hi) ==
  IF funcs = {} THEN [yMin |-> Inf(1), yMax |-> Inf(-1), threw |-> FALSE]
  ELSE IF lo = hi
  THEN FitFuncs(cs, ans, funcs, RAdd(xMin, RMul(Int2Num(lo), step)),
                [yMin |-> Inf(1), yMax |-> Inf(-1), threw |-> FALSE])
  ELSE The({ The({ [ yMin |-> RMin(a.yMin, b.yMin), yMax |-> RMax(a.yMax, b.yMax),
                     threw |-> a.threw \/ b.threw ] :
                   a \in {FitSamples(cs, ans, funcs, xMin, step, lo, mid)},
                   b \in {FitSamples(cs, ans, funcs, xMin, step, mid + 1, hi)} }) :
             mid \in {(lo + hi) \div 2} })

\* The button "Fit to data".  A function that throws ends the handler.
fitToData ==
  /\ \E cs \in {compiled} : \E funcs \in {Explicits(cs)} :
     \E step \in {RDiv(RSub(view.xMax, view.xMin), Int2Num(samples))} :
     \E ans \in {ansFinal} : \E xMin \in {view.xMin} :
     \E fit \in {FitSamples(cs, ans, funcs, xMin, step, 0, samples)} :
       LET diff == RMul(RSub(fit.yMax, fit.yMin), PadPart)
           pad == IF diff.k = "nan" \/ diff = Int2Num(0) THEN Int2Num(1) ELSE diff
       IN IF funcs = {} THEN view' = view
          ELSE IF fit.threw \/ ~IsFinite(fit.yMin) \/ ~IsFinite(fit.yMax) THEN view' = view
          ELSE view' = [view EXCEPT !.yMin = RSub(fit.yMin, pad),
                                    !.yMax = RAdd(fit.yMax, pad)]
  /\ UNCHANGED <<expressions, size, now, pointer, probe>>

\* The curves on the canvas while the viewport is operated on.
ViewCurves ==
  {
    <<"y", "=", "x">>,
    <<"y", "=", "4", "0", "9", "6">>,
    <<"2", "+">>
  }

\* The canvas positions of the pointer.
Pointers == {[x |-> 150, y |-> 95], [x |-> 600, y |-> 380]}

\* The points of the analysis lists a click centres the view on.
CenterPoints == {[x |-> Int2Num(0), y |-> Int2Num(0)], [x |-> Int2Num(3), y |-> Int2Num(-2)]}

\* The state after the first line has been retyped as a curve.
InitView ==
  /\ \E src \in ViewCurves : expressions = <<NewLine(1, src)>>
  /\ view = DefaultView
  /\ size = DefaultSize
  /\ now = 2
  /\ pointer = NoDrag
  /\ ops = 0
  /\ probe = NoProbe

NextView ==
  \/ \E p \in Pointers : onPointerDown(p.x, p.y) /\ UNCHANGED ops
  \/ onPointerUp /\ UNCHANGED ops
  \/ \E p \in Pointers : ops < MaxOps /\ onPointerMove(p.x, p.y) /\ ops' = ops + 1
  \/ \E p \in Pointers : \E up \in BOOLEAN :
        ops < MaxOps /\ onWheel(p.x, p.y, up) /\ ops' = ops + 1
  \/ \E f \in {ZoomIn, ZoomOut} : ops < MaxOps /\ zoomCenter(f) /\ ops' = ops + 1
  \/ ops < MaxOps /\ resetView /\ ops' = ops + 1
  \/ \E p \in CenterPoints : ops < MaxOps /\ centerOn(p.x, p.y) /\ ops' = ops + 1
  \/ ops < MaxOps /\ fitToData /\ ops' = ops + 1

SpecView == InitView /\ [][NextView]_vars

(***************************************************************************)
(* Properties of one iteration of the classifier.                          *)
(***************************************************************************)
Classified == probe.f = "classify" /\ probe.out # <<>>

\* The record pushed for the probed line, and the text it was classified on.
Out == probe.out[1].c
Text == ReplaceTheta(Trim(probe.e.src))

PlottedKinds == {"explicit", "polar", "parametric", "inequality", "double-ineq", "implicit"}

RECURSIVE CountCmp(_, _)
\* The comparison operators of s from its i-th character on, read left to
\* right, "<=" and ">=" counting once.
CountCmp(s, i) ==
  IF i > Len(s) THEN 0
  ELSE IF s[i] \in {"<", ">"}
       THEN 1 + CountCmp(s, IF i < Len(s) /\ s[i + 1] = "=" THEN i + 2 ELSE i + 1)
  ELSE IF s[i] \in {LEQ, GEQ} THEN 1 + CountCmp(s, i + 1)
  ELSE CountCmp(s, i + 1)

\* The structural condition of each branch, in the documented order.
Structure(s) ==
  << [kind |-> "explicit", holds |-> MatchY(s).ok],
     [kind |-> "polar", holds |-> MatchR(s).ok /\ HasWord(s, N_theta)],
     [kind |-> "parametric",
      holds |-> Includes(s, <<"x", "=">>) /\ Includes(s, <<"y", "=">>) /\ HasWord(s, N_t)],
     [kind |-> "double-ineq", holds |-> CountCmp(s, 1) >= 2],
     [kind |-> "inequality", holds |-> CountCmp(s, 1) = 1],
     [kind |-> "implicit",
      holds |-> Includes(s, <<"=">>) /\ HasWord(s, N_x) /\ HasWord(s, N_y)],
     [kind |-> "scalar",
      holds |-> /\ ~HasWord(s, N_x) /\ ~HasWord(s, N_y) /\ ~HasWord(s, N_t)
                /\ ~HasWord(s, N_theta) /\ ~Includes(s, <<"=">>)],
     [kind |-> "explicit", holds |-> TRUE] >>

\* The kind of the first branch whose structural condition holds.
FirstMatchKind(s) ==
  LET st == Structure(s)
      q == CHOOSE a \in DOMAIN st : st[a].holds /\ \A b \in 1..(a - 1) : ~st[b].holds
  IN st[q].kind

\* C1: the kind of every classified line is the kind of the first branch, in
\* the order explicit, polar, parametric, double inequality, inequality,
\* implicit, scalar, explicit fallback, whose structural condition holds on
\* the text; it is the same under every ans and every parameter value.
C1_FirstMatch ==
  Classified =>
    /\ Out.kind = FirstMatchKind(Text)
    /\ Out.kind = ClassifyLine(NewLine(1, probe.e.src), Int2Num(0)).kind

\* The range clause t=[a,b] of a parametric text: the leftmost "t=[" that
\* begins a part, the text up to the next "]", cut at its first comma.
RangeClause(s) ==
  LET starts == {i \in 1..Len(s) :
                   /\ MatchAt(s, <<"t", "=", "[">>, i)
                   /\ s[i] \in {",", ";", " "}
                   /\ IndexOfFrom(s, <<"]">>, i + 3) # -1}
      none == [ok |-> FALSE, a |-> <<>>, b |-> <<>>]
  IN IF starts = {} THEN none
     ELSE LET i == CHOOSE h \in starts : \A h2 \in starts : h <= h2
              inner == Slice(s, i + 3, IndexOfFrom(s, <<"]">>, i + 3))
              c == IndexOf(inner, <<",">>)
          IN IF c = -1 THEN none
             ELSE [ok |-> TRUE, a |-> Slice(inner, 0, c), b |-> SliceFrom(inner, c + 1)]

\* The value of a bound of a range clause, Throw if it has none.
BoundValue(text) ==
  IF Compiles(text) THEN Eval(compileExpr(text), EnvAns(ParamsOf(probe.e), probe.ans))
  ELSE Throw

\* C2: a parametric line with a range clause t=[a,b] whose bounds have values
\* has tmin = the value of a and tmax = the value of b, so that it has the
\* range [-10, 10] only if these are the values of its clause.
C2_RangeClause ==
  Classified /\ Out.kind = "parametric" /\ Out.error = "" =>
    LET rc == RangeClause(Text)
    IN rc.ok /\ BoundValue(rc.a) # Throw /\ BoundValue(rc.b) # Throw
         => Out.lo = BoundValue(rc.a) /\ Out.hi = BoundValue(rc.b)

\* C3: a line that has "x=", "y=" and the free variable t, and that neither
\* the explicit nor the polar branch takes, ends with kind parametric: with
\* both functions and no error, or with null functions and an error.
C3_NoFallThrough ==
  Classified /\ ~MatchY(Text).ok /\ ~(MatchR(Text).ok /\ HasWord(Text, N_theta))
    /\ Includes(Text, <<"x", "=">>) /\ Includes(Text, <<"y", "=">>) /\ HasWord(Text, N_t)
  => /\ Out.kind = "parametric"
     /\ \/ Out.fn # NoAst /\ Out.fn2 # NoAst /\ Out.error = ""
        \/ Out.fn = NoAst /\ Out.fn2 = NoAst /\ Out.error # ""

\* Every function the kind of c has is null.
AllNull(c) ==
  c.fn = NoAst /\ (c.kind \in {"double-ineq", "parametric"} => c.fn2 = NoAst)

\* C4: a compiled expression of a plotted kind has an error message exactly
\* when its function, or each function of its pair, is null, and has no error
\* message exactly when every function it needs is there.
C4_ErrorIffNull ==
  Classified /\ Out.kind \in PlottedKinds =>
    /\ Out.error # "" <=> AllNull(Out)
    /\ Out.error = "" <=> HasFn(Out)

\* A pair kind whose second part fails to compile has been classified.
C4_Witness ==
  /\ Classified
  /\ Text = <<"x", "=", "t", ",", "y", "=", ")">>
  /\ Out.kind = "parametric" /\ Out.error # "" /\ AllNull(Out)

\* The leftmost comparison operator of s: its 0-based position and its text,
\* the two-character operator where "<" or ">" is followed by "=".
LeftmostCmp(s) ==
  LET at == {i \in 1..Len(s) : s[i] \in {"<", ">", LEQ, GEQ}}
      i == CHOOSE h \in at : \A h2 \in at : h <= h2
  IN [ i |-> i - 1,
       op |-> IF s[i] \in {"<", ">"} /\ i < Len(s) /\ s[i + 1] = "="
              THEN <<s[i], "=">> ELSE <<s[i]>> ]

\* The documented normalisation of the operators.
OpName(op) ==
  CASE op \in { <<"<", "=">>, <<LEQ>> } -> "le"
    [] op \in { <<">", "=">>, <<GEQ>> } -> "ge"
    [] op = <<"<">> -> "lt"
    [] op = <<">">> -> "gt"

\* C7: a line of kind inequality is split at the leftmost comparison operator
\* of its text, the two-character operator where "<=" and "<" (">=" and ">")
\* start together: it has no error exactly when the texts before and after
\* that operator compile, and then its operator is the normalised one and its
\* function is the difference of the two operands.
C7_Leftmost ==
  Classified /\ Out.kind = "inequality" =>
    LET lm == LeftmostCmp(Text)
        L == compileExpr(Slice(Text, 0, lm.i))
        R == compileExpr(SliceFrom(Text, lm.i + Len(lm.op)))
    IN /\ Out.error = "" <=> (L # NoAst /\ R # NoAst)
       /\ Out.error = "" => Out.op = OpName(lm.op) /\ Out.fn = Diff(L, R)

\* The disc x*x+y*y<=4 has been classified as an inequality with op le.
C7_Witness ==
  /\ Classified
  /\ Text = <<"x", "*", "x", "+", "y", "*", "y", "<", "=", "4">>
  /\ Out.kind = "inequality" /\ Out.op = "le" /\ Out.error = ""

(***************************************************************************)
(* Properties of the compiled list.                                        *)
(***************************************************************************)
RECURSIVE LastFinite(_, _)
\* The value of the last scalar line among the first j compiled lines that
\* has a finite value, 0 if there is none.
LastFinite(cs, j) ==
  IF j = 0 THEN Int2Num(0)
  ELSE IF cs[j].kind = "scalar" /\ cs[j].error = "" /\ IsFinite(cs[j].value)
       THEN cs[j].value
  ELSE LastFinite(cs, j - 1)

SrcsAre(texts) ==
  /\ Len(expressions) = Len(texts)
  /\ \A i \in DOMAIN texts : expressions[i].src = texts[i]

TwelveThenAns == << <<"2", "+", "3", "*", "4">>, <<"a", "n", "s", "+", "1">> >>

\* C5: every scalar line k is the scalar branch run with ans = the value of
\* the last scalar line before k that has a finite value (0 if none), the
\* register ends as the last finite scalar value of the list, and the lines
\* "2+3*4", "ans+1" give the second line the value 15.
C5_AnsRegister ==
  \E all \in {CompileAll(expressions)} : \E cs \in {all.out} :
    /\ \A k \in DOMAIN cs :
         cs[k].kind = "scalar" =>
           cs[k] = ScalarOf(expressions[k], ReplaceTheta(Trim(expressions[k].src)),
                            LastFinite(cs, k - 1))
    /\ all.ans = LastFinite(cs, Len(cs))
    /\ SrcsAre(TwelveThenAns) => cs[2].value = Int2Num(15)

TwelveInfAns == << <<"2", "+", "3", "*", "4">>, <<"1", "/", "0">>, <<"a", "n", "s", "+", "1">> >>

\* The list is "2+3*4", "1/0", "ans+1": the second line is a scalar line
\* without a finite value and the third line reads ans = 14.
C5_Witness ==
  /\ SrcsAre(TwelveInfAns)
  /\ compiled[1].value = Int2Num(14)
  /\ compiled[2].kind = "scalar" /\ compiled[2].error = "" /\ ~IsFinite(compiled[2].value)
  /\ compiled[3].kind = "scalar" /\ compiled[3].value = Int2Num(15)

\* The step replaces the text of line i and nothing else.
ReplacesLine(i) ==
  /\ Len(expressions') = Len(expressions)
  /\ expressions'[i].src # expressions[i].src
  /\ \A j \in DOMAIN expressions : j # i => expressions'[j] = expressions[j]

\* C6: when the text of line i is replaced by a text that fails to compile,
\* every other line keeps its kind, its functions and its error, and every
\* other line that was drawn or analysed still is.
C6_ErrorIsLocal ==
  [][ \A i \in DOMAIN expressions :
        ReplacesLine(i) =>
          \E cs2 \in {CompileAll(expressions').out} :
            cs2[i].error # "" =>
            \E cs \in {compiled} :
            Len(cs2) = Len(cs) =>
              /\ \A j \in DOMAIN cs : j # i =>
                   /\ cs2[j].kind = cs[j].kind
                   /\ cs2[j].fn = cs[j].fn
                   /\ cs2[j].fn2 = cs[j].fn2
                   /\ cs2[j].error = cs[j].error
              /\ Drawn(cs) \ {i} \subseteq Drawn(cs2)
              /\ Explicits(cs) \ {i} \subseteq Explicits(cs2) ]_vars

\* A line with an error stands above a line that is drawn and analysed.
C6_Witness ==
  /\ Len(compiled) = 2
  /\ compiled[1].error # ""
  /\ 2 \in Drawn(compiled) /\ 2 \in Explicits(compiled)

(***************************************************************************)
(* Properties of the transform and of niceStep.                            *)
(***************************************************************************)
Transformed == probe.f = "transform" /\ probe.out # <<>>
TOut == probe.out[1]

Roundoff == Rat(1, MantissaEnd)

\* |a - b| <= tol, without rounding.
Within(a, b, tol) == RLe(RAbs(XAdd(a, RNeg(b))), tol)

\* The largest absolute value of two bounds, and the ratio of it to their
\* distance.
Reach(lo, hi) == RMax(RAbs(lo), RAbs(hi))
Offset(lo, hi) == XDiv(Reach(lo, hi), XAdd(hi, RNeg(lo)))

Niced == probe.f = "niceStep" /\ probe.out # <<>>
NOut == probe.out[1]

\* range / 10
Rough == [m |-> probe.range.m, e |-> probe.range.e - 1]

\* The next larger value of the form {1, 2, 5} * 10^k.
StepAbove(a) ==
  CASE a.m = 1 -> [m |-> 2, e |-> a.e]
    [] a.m = 2 -> [m |-> 5, e |-> a.e]
    [] OTHER -> [m |-> 1, e |-> a.e + 1]

C10_ViewOrdered ==
  RLt(view.xMin, view.xMax) /\ RLt(view.yMin, view.yMax)

(***************************************************************************)
(* Properties of zoomAround and fitToData.                                 *)
(***************************************************************************)
\* The calls zoomAround(x, y, zoom) the wheel and the zoom buttons make in
\* the current state.
ZoomCalls ==
  LET t == Transform(view)
  IN { [x |-> pxToX(t, Int2Num(p.x)), y |-> pxToY(t, Int2Num(p.y)), zoom |-> f] :
         p \in Pointers, f \in {ZoomIn, ZoomOut} }
     \cup
     { [x |-> RDiv(RAdd(view.xMin, view.xMax), Int2Num(2)),
        y |-> RDiv(RAdd(view.yMin, view.yMax), Int2Num(2)), zoom |-> f] :
         f \in {ZoomIn, ZoomOut} }

Ordered(v) == RLt(v.xMin, v.xMax) /\ RLt(v.yMin, v.yMax)

\* hi - lo and (p - lo) / (hi - lo), without rounding.
Extent(lo, hi) == XAdd(hi, RNeg(lo))
Frac(p, lo, hi) == XDiv(XAdd(p, RNeg(lo)), Extent(lo, hi))

ZoomedAxis(p, lo, hi, lo2, hi2, zoom) ==
  LET u8 == XMul(Int2Num(8), Roundoff)
  IN /\ RLt(lo2, hi2)
     /\ Within(Extent(lo2, hi2), XMul(Extent(lo, hi), zoom), XMul(u8, Reach(lo, hi)))
     /\ Within(Frac(p, lo2, hi2), Frac(p, lo, hi),
               XMul(u8, XDiv(Reach(lo, hi), Extent(lo2, hi2))))

Y5 == <<"y", "=", "5">>
YX == <<"y", "=", "x">>
YXT == <<"y", "=", "x", "+", "t">>
YInf == <<"y", "=", "1", "/", "0">>

\* The lists the fit is run on: a flat curve, two curves, a curve next to
\* one whose function throws (t is reserved and has no value), and a curve
\* without a finite value next to a line that does not compile.
FitLists ==
  { <<NewLine(1, Y5)>>,
    <<NewLine(1, YX), NewLine(2, Y5)>>,
    <<NewLine(1, Y5), NewLine(2, YXT)>>,
    <<NewLine(1, YInf), NewLine(2, <<"2", "+">>)>> }

InitFit ==
  /\ expressions \in FitLists
  /\ view = DefaultView
  /\ size = DefaultSize
  /\ now = 3
  /\ pointer = NoDrag
  /\ ops = 0
  /\ probe = NoProbe

NextFit ==
  \/ \E i \in DOMAIN expressions : toggleVisible(i)
  \/ \E f \in {ZoomIn, ZoomOut} : ops < MaxOps /\ zoomCenter(f) /\ ops' = ops + 1
  \/ ops < MaxOps /\ resetView /\ ops' = ops + 1
  \/ ops < MaxOps /\ fitToData /\ ops' = ops + 1

SpecFit == InitFit /\ [][NextFit]_vars

\* The finite values of the visible error-free explicit curves at the 801
\* sample points of the current x-range.
FiniteSamples ==
  LET cs == compiled
      ans == ansFinal
      step == RDiv(RSub(view.xMax, view.xMin), Int2Num(samples))
      all == { CallFn(cs[j], ans, RAdd(view.xMin, RMul(Int2Num(i), step))) :
                 i \in 0..samples,
                 j \in {h \in DOMAIN cs : /\ cs[h].visible /\ cs[h].kind = "explicit"
                                          /\ cs[h].fn # NoAst /\ cs[h].error = ""} }
  IN {v \in all : IsFinite(v)}

Least(S) == CHOOSE m \in S : \A v \in S : RLe(m, v)
Greatest(S) == CHOOSE m \in S : \A v \in S : RLe(v, m)

\* C12: a step of fitToData leaves xMin and xMax alone; it leaves the view
\* alone when no visible error-free explicit curve has a finite sample;
\* otherwise it sets yMin = m - pad and yMax = M + pad, m and M the least and
\* the greatest finite sample, pad = (M - m) * 0.1, or 1 when M = m.
C12_FitToData ==
  [][ ops' = ops + 1 /\ fitToData =>
        \E vals \in {FiniteSamples} :
          /\ view'.xMin = view.xMin /\ view'.xMax = view.xMax
          /\ IF vals = {} THEN view' = view
             ELSE \E m \in {Least(vals)} : \E M \in {Greatest(vals)} :
                  \E pad \in {IF M = m THEN Int2Num(1) ELSE RMul(RSub(M, m), PadPart)} :
                    /\ view'.yMin = RSub(m, pad)
                    /\ view'.yMax = RAdd(M, pad) ]_vars

(***************************************************************************)
(* The analysis (useMemo `analysis`): bisectRoot, goldenExtremum, the      *)
(* sampling grid, the candidates of the four lists and the set `seen`.     *)
(* A function that throws inside bisectRoot or goldenExtremum is not a     *)
(* case of the model: a function of the parsed fragment throws at every x  *)
(* or at none, and neither is called for a curve without finite samples.   *)
(***************************************************************************)
Null == [k |-> "null", n |-> 0, d |-> 1]
Zero == Int2Num(0)
Half == Lit(1, 2)
Million == Int2Num(1000000)         \* 1e6
Phi == Lit(618034, 1000000)         \* (Math.sqrt(5) - 1) / 2

\* const [pxStep, setPxStep] = useState(2); the slider is not operated.
pxStep == 2

\* Math.round of a finite number, as an integer.
MathRound(a) == (2 * a.n + a.d) \div (2 * a.d)

\* Math.max(400, Math.round(width / pxStep * 1.5))
GridN(width) ==
  The({ (IF n < 400 THEN 400 ELSE n) :
        n \in {MathRound(RMul(RDiv(Int2Num(width), Int2Num(pxStep)), Lit(3, 2)))} })

\* `${Math.round(x * 1e6)}:${Math.round(y * 1e6)}`: the two integers.  The
\* product is taken exactly: a double carries it to 53 bits, and the keys of
\* coordinates a fraction of 1e-6 apart are what the set `seen` is about.
mapKey(x, y) == <<MathRound(XMul(x, Million)), MathRound(XMul(y, Million))>>

\* xStartView + (i / N) * (xEndView - xStartView)
GridAt(v, N, i) ==
  RAdd(v.xMin, RMul(RDiv(Int2Num(i), Int2Num(N)), RSub(v.xMax, v.xMin)))

\* The function handed to bisectRoot: (x) => e.fn(x) of the curve f.A, or
\* (x) => { let v = A.fn(x) - B.fn(x); return Number.isFinite(v) ? v : NaN }.
OneFn(c) == [two |-> FALSE, A |-> c, B |-> c]
DiffFn(cA, cB) == [two |-> TRUE, A |-> cA, B |-> cB]

FnAt(f, ans, x0) ==
  The({ (IF ~f.two THEN CallFn(f.A, ans, x)
         ELSE The({ (IF a = Throw \/ b = Throw THEN Throw
                     ELSE The({ (IF IsFinite(v) THEN v ELSE NaN) :
                                v \in {RSub(ToNum(a), ToNum(b))} })) :
                    a \in {CallFn(f.A, ans, x)}, b \in {CallFn(f.B, ans, x)} })) :
        x \in {x0} })

\* The state of bisectRoot after its first three lines: the bracket, the
\* values at its ends, the iterations made, and the value returned once the
\* function has returned.
BisectEnter(f, ans, a0, b0, ya0, yb0) ==
  The({ The({ (IF ~IsFinite(ya) \/ ~IsFinite(yb) \/ RLt(Zero, RMul(ya, yb))
               THEN [lo |-> a, hi |-> b, flo |-> ya, fhi |-> yb, i |-> 0,
                     done |-> TRUE, ret |-> Null]
               ELSE [lo |-> a, hi |-> b, flo |-> ya, fhi |-> yb, i |-> 0,
                     done |-> FALSE, ret |-> Null]) :
              ya \in {IF IsFinite(ya0) THEN ya0 ELSE FnAt(f, ans, a)},
              yb \in {IF IsFinite(yb0) THEN yb0 ELSE FnAt(f, ans, b)} }) :
        a \in {a0}, b \in {b0} })

\* Always the upper half of the bracket, whatever the signs are.
BisectStepUp(f, ans, iters, st0) ==
  The({ (IF st.done THEN st
         ELSE IF st.i >= iters
         THEN [st EXCEPT !.done = TRUE, !.ret = RMul(Half, RAdd(st.lo, st.hi))]
         ELSE The({ [st EXCEPT !.lo = mid, !.i = st.i + 1] :
                    mid \in {RMul(Half, RAdd(st.lo, st.hi))} })) :
        st \in {st0} })

\* One pass through the loop of bisectRoot, or the return after the loop;
\* nothing once the function has returned.
BisectStep(f, ans, iters, st0) ==
  The({ (IF st.done THEN st
         ELSE IF st.i >= iters
         THEN [st EXCEPT !.done = TRUE, !.ret = RMul(Half, RAdd(st.lo, st.hi))]
         ELSE The({ The({ (IF ~IsFinite(fm) THEN [st EXCEPT !.done = TRUE, !.ret = Null]
                           ELSE IF st.flo = Zero THEN [st EXCEPT !.done = TRUE, !.ret = st.lo]
                           ELSE IF st.fhi = Zero THEN [st EXCEPT !.done = TRUE, !.ret = st.hi]
                           ELSE IF fm = Zero THEN [st EXCEPT !.done = TRUE, !.ret = mid]
                           ELSE IF RLt(RMul(st.flo, fm), Zero)
                                THEN [st EXCEPT !.hi = mid, !.fhi = fm, !.i = st.i + 1]
                                ELSE [st EXCEPT !.lo = mid, !.flo = fm, !.i = st.i + 1]) :
                          fm \in {FnAt(f, ans, mid)} }) :
                    mid \in {RMul(Half, RAdd(st.lo, st.hi))} })) :
        st \in {st0} })

RECURSIVE BisectSteps(_, _, _, _, _)
\* n passes through BisectStep, the first half of them before the second.
BisectSteps(f, ans, iters, n, st0) ==
  IF n = 0 THEN st0
  ELSE IF n = 1 THEN BisectStep(f, ans, iters, st0)
  ELSE The({ BisectSteps(f, ans, iters, n - (n \div 2), st) :
             st \in {BisectSteps(f, ans, iters, n \div 2, st0)} })

BisectIters == 32

\* bisectRoot(f, a, b, ya, yb): the root, or Null.
bisectRoot(f, ans, a, b, ya, yb) ==
  BisectSteps(f, ans, BisectIters, BisectIters + 1, BisectEnter(f, ans, a, b, ya, yb)).ret

GoldenIters == 48

\* g(x): f(x), or -f(x) for the mode "max".
GoldenAt(cv, ans, max, x) ==
  The({ (IF max THEN RNeg(ToNum(y)) ELSE y) : y \in {CallFn(cv, ans, x)} })

\* One pass through the loop of goldenExtremum; s is [a, b, c, d, fc, fd].
GoldenStep(cv, ans, max, s0) ==
  The({ (IF RLt(s.fd, s.fc)
         THEN The({ [a |-> s.c, b |-> s.b, c |-> s.d, d |-> d2, fc |-> s.fd,
                     fd |-> GoldenAt(cv, ans, max, d2)] :
                    d2 \in {RAdd(s.c, RMul(Phi, RSub(s.b, s.c)))} })
         ELSE The({ [a |-> s.a, b |-> s.d, c |-> c2, d |-> s.c, fd |-> s.fc,
                     fc |-> GoldenAt(cv, ans, max, c2)] :
                    c2 \in {RSub(s.d, RMul(Phi, RSub(s.d, s.a)))} })) :
        s \in {s0} })

RECURSIVE GoldenSteps(_, _, _, _, _)
\* n passes through GoldenStep, the first half of them before the second.
GoldenSteps(cv, ans, max, n, s0) ==
  IF n = 0 THEN s0
  ELSE IF n = 1 THEN GoldenStep(cv, ans, max, s0)
  ELSE The({ GoldenSteps(cv, ans, max, n - (n \div 2), s) :
             s \in {GoldenSteps(cv, ans, max, n \div 2, s0)} })

\* goldenExtremum(f, a, b, mode): [x, y], or Null.
goldenExtremum(cv, ans, a0, b0, max) ==
  The({ The({ The({ (The({ (IF IsFinite(y) THEN [x |-> x, y |-> y] ELSE Null) :
                           y \in {CallFn(cv, ans, x)} })) :
                    x \in {RMul(Half, RAdd(s.a, s.b))} }) :
              s \in {GoldenSteps(cv, ans, max, GoldenIters,
                       [a |-> a, b |-> b, c |-> c, d |-> d,
                        fc |-> GoldenAt(cv, ans, max, c),
                        fd |-> GoldenAt(cv, ans, max, d)])} }) :
        a \in {a0}, b \in {b0},
        c \in {RSub(b0, RMul(Phi, RSub(b0, a0)))},
        d \in {RAdd(a0, RMul(Phi, RSub(b0, a0)))} })

\* The sample of the curve c at the grid point x: NaN outside the domain of
\* the curve, NaN for a throw and for a value that is not a finite number.
SampleAt(c, ans, v, x0) ==
  The({ (IF c.domain.use /\ (RLt(x, RMax(v.xMin, c.domain.min)) \/
                             RLt(RMin(v.xMax, c.domain.max), x))
         THEN NaN
         ELSE The({ (IF IsFinite(y) THEN y ELSE NaN) : y \in {CallFn(c, ans, x)} })) :
        x \in {x0} })

RECURSIVE GridFrom(_, _, _, _)
\* The grid points lo..hi, in order.  The loops over the grid are written
\* by halving the range: no pass of such a loop reads what another wrote.
GridFrom(v, N, lo, hi) ==
  IF lo = hi THEN <<GridAt(v, N, lo)>>
  ELSE The({ GridFrom(v, N, lo, mid) \o GridFrom(v, N, mid + 1, hi) :
             mid \in {(lo + hi) \div 2} })

RECURSIVE SamplesFrom(_, _, _, _, _, _)
\* ys of the curve c at the grid points grid[lo..hi] (from 1).
SamplesFrom(c, ans, v, grid, lo, hi) ==
  IF lo = hi THEN <<SampleAt(c, ans, v, grid[lo])>>
  ELSE The({ SamplesFrom(c, ans, v, grid, lo, mid) \o SamplesFrom(c, ans, v, grid, mid + 1, hi) :
             mid \in {(lo + hi) \div 2} })

Point(type, x, y, id, id2) == [type |-> type, x |-> x, y |-> y, exprId |-> id, exprId2 |-> id2]

\* The x-intercept the pass i of the first inner loop finds, if any: the
\* samples i - 1 and i of the code are ys[i] and ys[i + 1] here.
XCandAt(c, ans, grid, ys, i) ==
  The({ (IF ~IsFinite(y0) \/ ~IsFinite(y1) THEN <<>>
         ELSE IF y0 = Zero \/ y1 = Zero \/ RLt(RMul(y0, y1), Zero)
         THEN The({ (IF xr = Null THEN <<>> ELSE <<Point("x-int", xr, Zero, c.id, 0)>>) :
                    xr \in {bisectRoot(OneFn(c), ans, grid[i], grid[i + 1], y0, y1)} })
         ELSE <<>>) :
        y0 \in {ys[i]}, y1 \in {ys[i + 1]} })

\* As XCandAt, with a pass every second interval only.
XCandAtEven(c, ans, grid, ys, i) ==
  IF i % 2 = 1 THEN <<>>
  ELSE The({ (IF ~IsFinite(y0) \/ ~IsFinite(y1) THEN <<>>
         ELSE IF y0 = Zero \/ y1 = Zero \/ RLt(RMul(y0, y1), Zero)
         THEN The({ (IF xr = Null THEN <<>> ELSE <<Point("x-int", xr, Zero, c.id, 0)>>) :
                    xr \in {bisectRoot(OneFn(c), ans, grid[i], grid[i + 1], y0, y1)} })
         ELSE <<>>) :
        y0 \in {ys[i]}, y1 \in {ys[i + 1]} })

RECURSIVE XCands(_, _, _, _, _, _)
XCands(c, ans, grid, ys, lo, hi) ==
  IF lo > hi THEN <<>>
  ELSE IF lo = hi THEN XCandAt(c, ans, grid, ys, lo)
  ELSE The({ XCands(c, ans, grid, ys, lo, mid) \o XCands(c, ans, grid, ys, mid + 1, hi) :
             mid \in {(lo + hi) \div 2} })

\* The y-intercept of the curve c, if any.
YCand(c, ans, v) ==
  IF RLe(v.xMin, Zero) /\ RLe(Zero, v.xMax)
     /\ (~c.domain.use \/ (RLe(c.domain.min, Zero) /\ RLe(Zero, c.domain.max)))
  THEN The({ (IF IsFinite(y) THEN <<Point("y-int", Zero, y, c.id, 0)>> ELSE <<>>) :
             y \in {CallFn(c, ans, Zero)} })
  ELSE <<>>

\* The extremum the pass i of the third inner loop finds, if any: the
\* samples i - 1, i, i + 1 of the code are ys[i], ys[i + 1], ys[i + 2] here.
ECandAt(c, ans, grid, ys, i) ==
  The({ (IF ~IsFinite(y0) \/ ~IsFinite(y1) \/ ~IsFinite(y2) THEN <<>>
         ELSE IF RLt(y0, y1) /\ RLt(y2, y1)
         THEN The({ (IF pt = Null THEN <<>> ELSE <<Point("max", pt.x, pt.y, c.id, 0)>>) :
                    pt \in {goldenExtremum(c, ans, grid[i], grid[i + 2], TRUE)} })
         ELSE IF RLt(y1, y0) /\ RLt(y1, y2)
         THEN The({ (IF pt = Null THEN <<>> ELSE <<Point("min", pt.x, pt.y, c.id, 0)>>) :
                    pt \in {goldenExtremum(c, ans, grid[i], grid[i + 2], FALSE)} })
         ELSE <<>>) :
        y0 \in {ys[i]}, y1 \in {ys[i + 1]}, y2 \in {ys[i + 2]} })

RECURSIVE ECands(_, _, _, _, _, _)
ECands(c, ans, grid, ys, lo, hi) ==
  IF lo > hi THEN <<>>
  ELSE IF lo = hi THEN ECandAt(c, ans, grid, ys, lo)
  ELSE The({ ECands(c, ans, grid, ys, lo, mid) \o ECands(c, ans, grid, ys, mid + 1, hi) :
             mid \in {(lo + hi) \div 2} })

\* The points one pass of the per-curve loop tests against `seen`, in the
\* order it tests them: x-intercepts, y-intercept, extrema of the curve c.
CurveCands(c, ans, v, grid) ==
  The({ XCands(c, ans, grid, ys, 1, Len(grid) - 1)
          \o YCand(c, ans, v)
          \o ECands(c, ans, grid, ys, 1, Len(grid) - 2) :
        ys \in {SamplesFrom(c, ans, v, grid, 1, Len(grid))} })

\* The intersection of the curves cA and cB the pass k finds, if any.
ICandAt(cA, cB, ans, grid, ds, k) ==
  The({ (IF ~IsFinite(ya) \/ ~IsFinite(yb) \/ RLt(Zero, RMul(ya, yb)) THEN <<>>
         ELSE The({ (IF x = Null THEN <<>>
                     ELSE The({ (IF IsFinite(y) THEN <<Point("intersect", x, y, cA.id, cB.id)>>
                                 ELSE <<>>) :
                                y \in {CallFn(cA, ans, x)} })) :
                    x \in {bisectRoot(DiffFn(cA, cB), ans, grid[k], grid[k + 1], ya, yb)} })) :
        ya \in {ds[k]}, yb \in {ds[k + 1]} })

RECURSIVE DiffsFrom(_, _, _, _, _)
\* try { ya = f(a) } catch { ya = NaN } at the grid points grid[lo..hi].
DiffsFrom(f, ans, grid, lo, hi) ==
  IF lo = hi
  THEN The({ (IF y = Throw THEN <<NaN>> ELSE <<y>>) : y \in {FnAt(f, ans, grid[lo])} })
  ELSE The({ DiffsFrom(f, ans, grid, lo, mid) \o DiffsFrom(f, ans, grid, mid + 1, hi) :
             mid \in {(lo + hi) \div 2} })

RECURSIVE ICands(_, _, _, _, _, _, _)
ICands(cA, cB, ans, grid, ds, lo, hi) ==
  IF lo > hi THEN <<>>
  ELSE IF lo = hi THEN ICandAt(cA, cB, ans, grid, ds, lo)
  ELSE The({ ICands(cA, cB, ans, grid, ds, lo, mid) \o ICands(cA, cB, ans, grid, ds, mid + 1, hi) :
             mid \in {(lo + hi) \div 2} })

PairCands(cA, cB, ans, grid) ==
  The({ ICands(cA, cB, ans, grid, ds, 1, Len(grid) - 1) :
        ds \in {DiffsFrom(DiffFn(cA, cB), ans, grid, 1, Len(grid))} })

\* The indices of a set, in increasing order.
RECURSIVE Ascending(_)
Ascending(S) ==
  IF S = {} THEN <<>>
  ELSE LET m == CHOOSE h \in S : \A h2 \in S : h <= h2
       IN <<m>> \o Ascending(S \ {m})

RECURSIVE AllCurveCands(_, _, _, _, _, _)
\* for (const e of explicits) { ... }: one curve after the other.
AllCurveCands(cs, ans, v, grid, order, k) ==
  IF k > Len(order) THEN <<>>
  ELSE CurveCands(cs[order[k]], ans, v, grid) \o AllCurveCands(cs, ans, v, grid, order, k + 1)

RECURSIVE AllPairCands(_, _, _, _, _, _)
\* for (let i ...) for (let j = i + 1 ...): the pairs of interCurves, the
\* pair (i, j) at the place i, j of the two loops.
AllPairCands(cs, ans, grid, order, i, j) ==
  IF i > Len(order) THEN <<>>
  ELSE IF j > Len(order) THEN AllPairCands(cs, ans, grid, order, i + 1, i + 2)
  ELSE PairCands(cs[order[i]], cs[order[j]], ans, grid)
         \o AllPairCands(cs, ans, grid, order, i, j + 1)

\* explicits.filter(e => e.includeIntersect !== false)
InterCurves(cs, explicits) == {i \in explicits : cs[i].includeIntersect # FALSE}

\* Every curve takes part in the intersections, opted in or not.
InterCurvesAll(cs, explicits) == explicits

\* The points the analysis tests against `seen`, in the order of the tests.
Candidates(cs, ans, v, width) ==
  The({ (IF explicits = {} THEN <<>>
         ELSE The({ AllCurveCands(cs, ans, v, grid, Ascending(explicits), 1)
                      \o AllPairCands(cs, ans, grid,
                                      Ascending(InterCurves(cs, explicits)), 1, 2) :
                    grid \in {GridFrom(v, GridN(width), 0, GridN(width))} })) :
        explicits \in {Explicits(cs)} })

\* Dedupe without the set `seen`.
DedupeNone(cands, lo, hi, st) ==
  [seen |-> st.seen, out |-> st.out \o SubSeq(cands, lo, hi)]

RECURSIVE Dedupe(_, _, _, _)
\* if (!seen.has(key)) { seen.add(key); result.<list>.push(point) }, for the
\* candidates cands[lo..hi] in their order; st is the set `seen` and the
\* points pushed so far.
Dedupe(cands, lo, hi, st) ==
  IF lo > hi THEN st
  ELSE IF lo = hi
       THEN The({ (IF key \in st.seen THEN st
                   ELSE [seen |-> st.seen \cup {key}, out |-> Append(st.out, cands[lo])]) :
                  key \in {mapKey(cands[lo].x, cands[lo].y)} })
  ELSE The({ The({ Dedupe(cands, mid + 1, hi, st1) : st1 \in {Dedupe(cands, lo, mid, st)} }) :
             mid \in {(lo + hi) \div 2} })

RECURSIVE OfType(_, _)
\* The points of q of the given types, in their order.
OfType(q, types) ==
  IF q = <<>> THEN <<>>
  ELSE IF Len(q) = 1 THEN (IF q[1].type \in types THEN q ELSE <<>>)
  ELSE The({ OfType(SubSeq(q, 1, mid), types) \o OfType(SubSeq(q, mid + 1, Len(q)), types) :
             mid \in {Len(q) \div 2} })

\* The value of the useMemo for given compiled lines, view and width.
AnalysisOf(cs, ans, v, width) ==
  The({ (The({ [ xIntercepts |-> xs, yIntercepts |-> ys, extrema |-> es,
                 intersections |-> is, allPoints |-> xs \o ys \o es \o is ] :
               xs \in {OfType(kept, {"x-int"})}, ys \in {OfType(kept, {"y-int"})},
               es \in {OfType(kept, {"min", "max"})}, is \in {OfType(kept, {"intersect"})} })) :
        kept \in {The({ Dedupe(cands, 1, Len(cands), [seen |-> {}, out |-> <<>>]).out :
                         cands \in {Candidates(cs, ans, v, width)} })} })

\* The candidates and the analysis of the current state.
candidates == Candidates(compiled, ansFinal, view, size.width)
analysis == AnalysisOf(compiled, ansFinal, view, size.width)

(***************************************************************************)
(* The analysis of a list of one or two curves: the user hides and shows   *)
(* lines, ticks and unticks "Include in intersections", and replaces lines *)
(* by a polar line or by a line that does not parse.                       *)
(***************************************************************************)
YAbs == <<"y", "=", "a", "b", "s", "(", "x", ")">>
Y2Abs == <<"y", "=", "2", "*", "a", "b", "s", "(", "x", ")">>
YXX == <<"y", "=", "x", "*", "x">>
RTheta == <<"r", "=", "t", "h", "e", "t", "a">>
YXPlus == <<"y", "=", "x", "+">>

ViewOver(a, b) == [DefaultView EXCEPT !.xMin = Int2Num(a), !.xMax = Int2Num(b)]

\* The lists and the viewports the analysis is run on.  0 is a point of the
\* sampling grids over [-5, 5] and [-2, 2] and none of the grid over
\* [-10, 11].
AnalysisInits ==
  { [e |-> <<NewLine(1, YAbs)>>, v |-> ViewOver(-5, 5)],
    [e |-> <<NewLine(1, YX), NewLine(2, YXX)>>, v |-> ViewOver(-2, 2)],
    [e |-> <<NewLine(1, Y2Abs), NewLine(2, YX)>>, v |-> ViewOver(-10, 11)] }

\* The texts a line is replaced by.
AnalysisEdits == {RTheta, YXPlus}

MaxEdited == 1     \* lines of a list replaced by a text of AnalysisEdits

Edited == {i \in DOMAIN expressions : expressions[i].src \in AnalysisEdits}

PatchInclude(arr, id, b) ==
  [i \in DOMAIN arr |-> IF arr[i].id = id THEN [arr[i] EXCEPT !.includeIntersect = b] ELSE arr[i]]

\* onChange of the checkbox "Include in intersections" of a line.
toggleIncludeIntersect(i) ==
  /\ expressions' = PatchInclude(expressions, expressions[i].id,
                                 ~(expressions[i].includeIntersect # FALSE))
  /\ UNCHANGED <<view, size, now, pointer, ops, probe>>

InitAnalysis ==
  /\ \E s \in AnalysisInits : expressions = s.e /\ view = s.v
  /\ size = DefaultSize
  /\ now = 3
  /\ pointer = NoDrag
  /\ ops = 0
  /\ probe = NoProbe

NextAnalysis ==
  \/ \E i \in DOMAIN expressions : toggleVisible(i)
  \/ \E i \in DOMAIN expressions : toggleIncludeIntersect(i)
  \/ \E i \in DOMAIN expressions : \E src \in AnalysisEdits :
       Cardinality(Edited) < MaxEdited /\ updateExprSrc(i, src)

SpecAnalysis == InitAnalysis /\ [][NextAnalysis]_vars

\* The lines with the id `id` that are visible, explicit and error-free.
Analysable(cs, id) ==
  {i \in DOMAIN cs : /\ cs[i].id = id /\ cs[i].visible /\ cs[i].kind = "explicit"
                     /\ cs[i].fn # NoAst /\ cs[i].error = ""}

\* The ids a point refers to.
IdsOf(p) == IF p.type = "intersect" THEN {p.exprId, p.exprId2} ELSE {p.exprId}

PointsOf(a) == a.xIntercepts \o a.yIntercepts \o a.extrema \o a.intersections

\* C13: every point of the four lists and of allPoints refers only to lines
\* that are visible, explicit and error-free, and with no such line the four
\* lists and allPoints are empty.
C13_PointsOfExplicits ==
  \E cs \in {compiled} : \E a \in {analysis} :
    /\ a.allPoints = PointsOf(a)
    /\ \A k \in DOMAIN a.allPoints : \A id \in IdsOf(a.allPoints[k]) : Analysable(cs, id) # {}
    /\ (\A i \in DOMAIN cs : Analysable(cs, cs[i].id) = {}) => a.allPoints = <<>>

\* 2|x| is hidden next to the visible line x, and the analysis holds the
\* x-intercept of x and no point of 2|x|.
C13_Witness ==
  /\ Len(expressions) = 2
  /\ expressions[1].src = Y2Abs /\ ~expressions[1].visible
  /\ expressions[2].src = YX /\ expressions[2].visible
  /\ \E a \in {analysis} :
       /\ a.xIntercepts # <<>>
       /\ \A k \in DOMAIN a.allPoints : IdsOf(a.allPoints[k]) = {2}

\* The place of a point's list in the order x-intercepts, y-intercepts,
\* extrema, intersections.
Rank(type) ==
  CASE type = "x-int" -> 1
    [] type = "y-int" -> 2
    [] type \in {"min", "max"} -> 3
    [] type = "intersect" -> 4

KeyOf(p) == mapKey(p.x, p.y)

\* C14: a retained point is of the earliest category among the candidates
\* with its key, whichever curves produced them.
C14_EarliestCategory ==
  \E cands \in {candidates} : \E a \in {analysis} :
    \A k \in DOMAIN a.allPoints : \A j \in DOMAIN cands :
      KeyOf(cands[j]) = KeyOf(a.allPoints[k])
        => Rank(a.allPoints[k].type) <= Rank(cands[j].type)

(***************************************************************************)
(* The set `seen` on two candidates a fraction of 1e-6 apart.              *)
(***************************************************************************)
MaxTenths == 12    \* coordinates of the probed candidates are 0 .. MaxTenths times 1e-7
\* k times 1e-7
Tenths(k) == Rat(k, 10000000)

\* The candidates probed: intersections of the first curve with two others.
DedupePoints(id2) ==
  { Point("intersect", Tenths(kx), Tenths(ky), 1, id2) : kx \in 0..MaxTenths, ky \in {0, 4, 6} }

InitDedupe ==
  /\ expressions = <<NewLine(1, <<"s", "i", "n", "(", "x", ")">>)>>
  /\ view = DefaultView
  /\ size = DefaultSize
  /\ now = 2
  /\ pointer = NoDrag
  /\ ops = 0
  /\ \E p \in DedupePoints(2), q \in DedupePoints(3) :
       probe = [f |-> "dedupe", cands |-> <<p, q>>, out |-> <<>>]

DedupeProbe ==
  /\ probe.f = "dedupe"
  /\ probe.out = <<>>
  /\ probe' = [probe EXCEPT !.out =
                 <<Dedupe(probe.cands, 1, Len(probe.cands), [seen |-> {}, out |-> <<>>]).out>>]
  /\ UNCHANGED <<expressions, view, size, now, pointer, ops>>

NextDedupe == DedupeProbe

SpecDedupe == InitDedupe /\ [][NextDedupe]_vars

\* |a - b| <= 1e-6, exactly.
WithinMillionth(a, b) == RLe(RAbs(XAdd(a, RNeg(b))), Rat(1, 1000000))

\* C15: of two candidates at most 1e-6 apart in x and in y only one is
\* retained.
C15_OneRetained ==
  (probe.f = "dedupe" /\ probe.out # <<>>) =>
    \E p \in {probe.cands[1]} : \E q \in {probe.cands[2]} :
      (WithinMillionth(p.x, q.x) /\ WithinMillionth(p.y, q.y)) => Len(probe.out[1]) = 1

\* The lines of the lists whose curve has a single local minimum, at (0,0).
MinAtOrigin == {YAbs, Y2Abs}

Thousandth == Lit(1, 1000)

\* The places in the list `extrema` of the points of the line with this id.
ExtremaOf(a, id) == {k \in DOMAIN a.extrema : a.extrema[k].exprId = id}

\* C16: for every visible curve with a single interior local minimum, the
\* list `extrema` holds exactly one point of the curve, a min within 1e-3 of
\* the minimum.
C16_OneMinimum ==
  \A i \in DOMAIN expressions :
    (expressions[i].visible /\ expressions[i].src \in MinAtOrigin) =>
      \E a \in {analysis} : \E ks \in {ExtremaOf(a, expressions[i].id)} :
        /\ Cardinality(ks) = 1
        /\ \A k \in ks : /\ a.extrema[k].type = "min"
                         /\ RLe(RAbs(a.extrema[k].x), Thousandth)
                         /\ RLe(RAbs(a.extrema[k].y), Thousandth)

\* The crossings of x and x * x.
Crossings == {[x |-> Int2Num(0), y |-> Int2Num(0)], [x |-> Int2Num(1), y |-> Int2Num(1)]}

\* p is within 1e-3 of c in x and in y.
NearPoint(p, c) ==
  /\ RLe(RAbs(RSub(p.x, c.x)), Thousandth)
  /\ RLe(RAbs(RSub(p.y, c.y)), Thousandth)

\* The lines that are opted out of the intersections.
OptedOut == {expressions[i].id : i \in {j \in DOMAIN expressions :
                                          expressions[j].includeIntersect = FALSE}}

\* Both lines x and x * x are on the canvas and opted in.
BothOptedIn ==
  /\ Len(expressions) = 2
  /\ expressions[1].src = YX /\ expressions[2].src = YXX
  /\ \A i \in DOMAIN expressions : expressions[i].visible /\ expressions[i].includeIntersect # FALSE

\* C17: no intersection point refers to a line that is opted out; and with
\* x and x * x both visible and opted in, the list `intersections` holds one
\* point at each of their crossings (0,0) and (1,1) and no other point.
C17_Intersections ==
  \E a \in {analysis} :
    /\ \A k \in DOMAIN a.intersections : IdsOf(a.intersections[k]) \cap OptedOut = {}
    /\ BothOptedIn =>
         /\ \A c \in Crossings :
              Cardinality({k \in DOMAIN a.intersections : NearPoint(a.intersections[k], c)}) = 1
         /\ \A k \in DOMAIN a.intersections :
              \E c \in Crossings : NearPoint(a.intersections[k], c)

(***************************************************************************)
(* bisectRoot pass by pass, on an interval of the sampling grid with the   *)
(* samples of a curve at its ends, as the x-intercept loop calls it.       *)
(***************************************************************************)
YXX4 == <<"y", "=", "x", "*", "x", "-", "4">>
YXX2 == <<"y", "=", "x", "*", "x", "-", "2">>
YInv == <<"y", "=", "1", "/", "x">>

BisectCurves == {YX, YXX4, YXX2, YInv}
BisectViews == {DefaultView, ViewOver(-1, 3)}

\* The intervals probed: around x = -2, -1.41, 0, 1.41 and 2 of the default
\* viewport and around x = 0 of [-1, 3].
BisectIndices == {112, 113, 179, 180, 193, 224, 225, 256, 270}

CurveOf(text) == CompileAll(<<NewLine(1, text)>>).out[1]

InitBisect ==
  /\ expressions = <<NewLine(1, <<"s", "i", "n", "(", "x", ")">>)>>
  /\ view = DefaultView
  /\ size = DefaultSize
  /\ now = 2
  /\ pointer = NoDrag
  /\ ops = 0
  /\ \E text \in BisectCurves, v \in BisectViews, i \in BisectIndices :
       \E c \in {CurveOf(text)} :
       \E a \in {GridAt(v, GridN(size.width), i)} :
       \E b \in {GridAt(v, GridN(size.width), i + 1)} :
         probe = [f |-> "bisectRoot", c |-> c, v |-> v, a |-> a, b |-> b,
                  ya |-> SampleAt(c, Zero, v, a), yb |-> SampleAt(c, Zero, v, b),
                  st |-> <<>>]

\* The call and the first three lines of bisectRoot.
BisectCall ==
  /\ probe.f = "bisectRoot"
  /\ probe.st = <<>>
  /\ probe' = [probe EXCEPT !.st =
                 <<BisectEnter(OneFn(probe.c), Zero, probe.a, probe.b, probe.ya, probe.yb)>>]
  /\ UNCHANGED <<expressions, view, size, now, pointer, ops>>

\* One pass through the loop, or the return after the last pass.
BisectPass ==
  /\ probe.f = "bisectRoot"
  /\ probe.st # <<>>
  /\ ~probe.st[1].done
  /\ probe' = [probe EXCEPT !.st = <<BisectStep(OneFn(probe.c), Zero, BisectIters, probe.st[1])>>]
  /\ UNCHANGED <<expressions, view, size, now, pointer, ops>>

NextBisect == BisectCall \/ BisectPass

SpecBisect == InitBisect /\ [][NextBisect]_vars

\* Both values are non-zero and of the same sign.
SameStrictSign(y0, y1) ==
  \/ RLt(Zero, y0) /\ RLt(Zero, y1)
  \/ RLt(y0, Zero) /\ RLt(y1, Zero)

\* A sign change or an exact zero between two finite samples.
SignChangeOrZero(y0, y1) ==
  IsFinite(y0) /\ IsFinite(y1) /\ ~SameStrictSign(y0, y1)

\* The x-intercepts the x-intercept loop finds in the probed interval.
ProbedXCands ==
  XCandAt(probe.c, Zero, <<probe.a, probe.b>>, <<probe.ya, probe.yb>>, 1)

\* C18: a sign change or an exact zero between the two samples yields
\* exactly one x-intercept, inside the interval; bisectRoot returns null at
\* once when an end value is not finite or both are non-zero of the same
\* sign, and otherwise its bracket stays inside [a, b] with end values that
\* are never of the same strict sign.
C18_BisectRoot ==
  probe.f = "bisectRoot" =>
    /\ SignChangeOrZero(probe.ya, probe.yb) =>
         \E xc \in {ProbedXCands} :
           /\ Len(xc) = 1
           /\ \A k \in DOMAIN xc : RLe(probe.a, xc[k].x) /\ RLe(xc[k].x, probe.b)
    /\ probe.st # <<>> =>
         \E st \in {probe.st[1]} :
         \E ya \in {IF IsFinite(probe.ya) THEN probe.ya
                    ELSE FnAt(OneFn(probe.c), Zero, probe.a)} :
         \E yb \in {IF IsFinite(probe.yb) THEN probe.yb
                    ELSE FnAt(OneFn(probe.c), Zero, probe.b)} :
           IF ~IsFinite(ya) \/ ~IsFinite(yb) \/ SameStrictSign(ya, yb)
           THEN st.done /\ st.ret = Null /\ st.i = 0
           ELSE /\ RLe(probe.a, st.lo) /\ RLe(st.lo, st.hi) /\ RLe(st.hi, probe.b)
                /\ ~SameStrictSign(st.flo, st.fhi)

(***************************************************************************)
(* f.piecewise on the values of its arguments.                             *)
(***************************************************************************)
MaxPairs == 2      \* pairs (condition, value) of a probed call of piecewise

\* if (args[i]): false, 0 and NaN are falsy.
Truthy(v) == ~(v.k = "nan" \/ (v.k \in {"bool", "num"} /\ v.n = 0))

RECURSIVE PiecewiseEvery(_, _)
\* The loop of piecewise with i += 1: every argument but the last is read as
\* a condition.
PiecewiseEvery(args, i) ==
  IF i >= Len(args) THEN args[Len(args)]
  ELSE IF Truthy(args[i]) THEN args[i + 1]
  ELSE PiecewiseEvery(args, i + 1)

piecewiseEvery(args) ==
  IF Len(args) < 3 THEN NaN ELSE PiecewiseEvery(args, 1)

RECURSIVE PiecewiseFrom(_, _)
\* for (let i = 0; i < args.length - 1; i += 2) { if (args[i]) return
\* args[i + 1]; } return args[args.length - 1]; with places counted from 1.
PiecewiseFrom(args, i) ==
  IF i >= Len(args) THEN args[Len(args)]
  ELSE IF Truthy(args[i]) THEN args[i + 1]
  ELSE PiecewiseFrom(args, i + 2)

\* f.piecewise = (...args) => { if (args.length < 3) return NaN; ... }
piecewise(args) ==
  IF Len(args) < 3 THEN NaN ELSE PiecewiseFrom(args, 1)

\* The conditions and the values of the probed calls.
PiecewiseConds == {Bool(FALSE), Bool(TRUE), Int2Num(0), Int2Num(2), NaN}
PiecewiseVals == {Int2Num(0), Int2Num(1), Int2Num(2), Int2Num(99)}

RECURSIVE PairsOf(_)
\* c1, v1, ..., cn, vn
PairsOf(n) ==
  IF n = 0 THEN {<<>>}
  ELSE {s \o <<c, v>> : s \in PairsOf(n - 1), c \in PiecewiseConds, v \in PiecewiseVals}

\* The calls with a trailing default and those without one.
PiecewiseCalls ==
  UNION { {s \o <<d>> : s \in PairsOf(n), d \in PiecewiseVals} \cup PairsOf(n) : n \in 0..MaxPairs }

InitPiecewise ==
  /\ expressions = <<NewLine(1, <<"s", "i", "n", "(", "x", ")">>)>>
  /\ view = DefaultView
  /\ size = DefaultSize
  /\ now = 2
  /\ pointer = NoDrag
  /\ ops = 0
  /\ \E args \in PiecewiseCalls : probe = [f |-> "piecewise", args |-> args, out |-> <<>>]

PiecewiseProbe ==
  /\ probe.f = "piecewise"
  /\ probe.out = <<>>
  /\ probe' = [probe EXCEPT !.out = <<piecewise(probe.args)>>]
  /\ UNCHANGED <<expressions, view, size, now, pointer, ops>>

NextPiecewise == PiecewiseProbe

SpecPiecewise == InitPiecewise /\ [][NextPiecewise]_vars

\* The places of the conditions of a call with a default that are truthy.
TruthyConds(args) ==
  {i \in 1..(Len(args) - 1) : i % 2 = 1 /\ Truthy(args[i])}

\* C19: piecewise(c1, v1, ..., cn, vn, default) is vi for the least i with ci
\* truthy, and the default when no ci is truthy.
C19_Piecewise ==
  (/\ probe.f = "piecewise" /\ probe.out # <<>>
   /\ Len(probe.args) >= 3 /\ Len(probe.args) % 2 = 1) =>
    \E args \in {probe.args} : \E cs \in {TruthyConds(probe.args)} :
      IF cs = {} THEN probe.out[1] = args[Len(args)]
      ELSE \E i \in cs : (\A j \in cs : i <= j) /\ probe.out[1] = args[i + 1]

\* piecewise(false, 1, true, 2, 99) has returned 2.
C19_Witness ==
  /\ probe.f = "piecewise"
  /\ probe.args = <<Bool(FALSE), Int2Num(1), Bool(TRUE), Int2Num(2), Int2Num(99)>>
  /\ probe.out = <<Int2Num(2)>>

(***************************************************************************)
(* The effect that loads the session from the hash #g=... at mount.  The   *)
(* blob is the value decodeState returns: null for a text that is no       *)
(* base64 or no JSON, otherwise the parsed value.  Of an entry of data.e   *)
(* only the field src is modelled, of the other fields only q.             *)
(***************************************************************************)
\* JSON values in the place of a number: a missing field and a string.
JAbsent == [k |-> "absent", n |-> 0, d |-> 1]
JText == [k |-> "str", n |-> 0, d |-> 1]

\* The values of data.v: a missing (or falsy) field, and objects with some of
\* the four bounds.
NoView == [field |-> FALSE, xMin |-> JAbsent, xMax |-> JAbsent, yMin |-> JAbsent,
           yMax |-> JAbsent]
LoadViews ==
  { [field |-> TRUE, xMin |-> a, xMax |-> b, yMin |-> c, yMax |-> JAbsent] :
      a \in {JAbsent, JText, Int2Num(-5), Int2Num(5)},
      b \in {JAbsent, JText, Int2Num(-5), Int2Num(5)},
      c \in {JAbsent, JText} }

\* The entries of data.e: an object with a source text, an object without
\* one, and a value that is no object (a number).
JLine(src) == [obj |-> TRUE, hasSrc |-> TRUE, src |-> src]
JEmpty == [obj |-> TRUE, hasSrc |-> FALSE, src |-> <<>>]
JSeven == [obj |-> FALSE, hasSrc |-> FALSE, src |-> <<>>]

\* The values of data.e: a missing (or falsy) field, a string, and arrays of
\* entries.
NoList == [field |-> FALSE, array |-> FALSE, items |-> <<>>]
NotAnArray == [field |-> TRUE, array |-> FALSE, items |-> <<>>]
LoadLists ==
  { [field |-> TRUE, array |-> TRUE, items |-> items] :
      items \in { <<>>, <<JLine(YX)>>, <<JEmpty>>, <<JSeven>>, <<JLine(YX), JSeven>> } }

\* decodeState's null.
NullBlob == [null |-> TRUE, v |-> NoView, e |-> NoList, q |-> JAbsent]

LoadBlobs ==
  {NullBlob} \cup
  { [null |-> FALSE, v |-> v, e |-> e, q |-> q] :
      v \in {NoView} \cup LoadViews,
      e \in {NoList, NotAnArray} \cup LoadLists,
      q \in {JAbsent, JText, Int2Num(1)} }

InitLoad ==
  /\ expressions = <<NewLine(1, <<"s", "i", "n", "(", "x", ")">>)>>
  /\ view = DefaultView
  /\ size = DefaultSize
  /\ now = 2
  /\ pointer = NoDrag
  /\ ops = 0
  /\ \E data \in LoadBlobs :
       probe = [f |-> "load", data |-> data, loaded |-> FALSE, pxStep |-> pxStep]

Bounds == {"xMin", "xMax", "yMin", "yMax"}

\* { ...v, ...data.v }
MergeView(v, patch) ==
  [ xMin |-> IF patch.xMin = JAbsent THEN v.xMin ELSE patch.xMin,
    xMax |-> IF patch.xMax = JAbsent THEN v.xMax ELSE patch.xMax,
    yMin |-> IF patch.yMin = JAbsent THEN v.yMin ELSE patch.yMin,
    yMax |-> IF patch.yMax = JAbsent THEN v.yMax ELSE patch.yMax ]

\* The template of a loaded line, without a source text.
LineTemplate(id) ==
  [ id |-> id, visible |-> TRUE, params |-> NoParams,
    domain |-> [use |-> FALSE, min |-> Int2Num(-10), max |-> Int2Num(10)],
    includeIntersect |-> TRUE ]

\* data.e.map((x, i) => ({ id: Date.now() + i, ..., ...x })), i from 0; a
\* number spreads to nothing.
LoadedLines(e, clock) ==
  [i \in DOMAIN e |->
     IF e[i].obj /\ e[i].hasSrc THEN NewLine(clock + i - 1, e[i].src)
     ELSE LineTemplate(clock + i - 1)]

\* The effect, once.
loadHash ==
  /\ probe.f = "load"
  /\ ~probe.loaded
  /\ IF ~probe.data.null /\ probe.data.v.field /\ probe.data.e.field
     THEN /\ view' = MergeView(view, probe.data.v)
          /\ expressions' = (IF probe.data.e.array
                             THEN LoadedLines(probe.data.e.items, now) ELSE <<>>)
          /\ probe' = [probe EXCEPT !.loaded = TRUE,
                                    !.pxStep = IF probe.data.q.k = "num"
                                               THEN probe.data.q.n ELSE @]
     ELSE /\ probe' = [probe EXCEPT !.loaded = TRUE]
          /\ UNCHANGED <<view, expressions>>
  /\ UNCHANGED <<size, now, pointer, ops>>

NextLoad == loadHash

SpecLoad == InitLoad /\ [][NextLoad]_vars

\* C20: after the load the four bounds are numbers with xMin < xMax and
\* yMin < yMax, every line has a source text and the quality is a number;
\* a blob that does not decode leaves the default session.
C20_LoadSafe ==
  (probe.f = "load" /\ probe.loaded) =>
    /\ \A b \in Bounds : view[b].k = "num"
    /\ RLt(view.xMin, view.xMax) /\ RLt(view.yMin, view.yMax)
    /\ \A i \in DOMAIN expressions : "src" \in DOMAIN expressions[i]
    /\ probe.pxStep \in {pxStep, 1}
    /\ probe.data.null =>
         /\ view = DefaultView
         /\ expressions = <<NewLine(1, <<"s", "i", "n", "(", "x", ")">>)>>
         /\ probe.pxStep = pxStep

(***************************************************************************)
(* The external providers: the symbolic one (nerdamer, behind ensureCAS)   *)
(* and the statistical one (jStat, behind ensureStats).  A press of a      *)
(* button starts an asynchronous call; the call completes in a later step, *)
(* with a result or with a failure (of the load or of the call).  Between  *)
(* the two steps the user may go on editing.  probe holds the rest of the  *)
(* component's state: focusedId, statPlots, the calls in flight, and the   *)
(* number of alert() boxes shown and of rejections nobody handled.         *)
(***************************************************************************)
MaxCalls == 2      \* provider calls started in a run
MaxLines == 2      \* lines of the list in a run with providers

Transforms == {"simplify", "expand", "factor", "apart"}
StatResults == {"pdf", "cdf", "quantile", "sample"}
PlotKinds == {"pdf", "cdf", "pmf"}

\* The texts the user adds, and the texts a line is edited to, in a run with
\* providers.
CasTexts == {YX}
CasEdits == {<<"x", "+", "x">>, <<>>}

\* The text a provider call yields: the provider is outside the program, its
\* answer is a text that depends on the operation.
ResultText(op) ==
  CASE op \in Transforms -> <<"2", "*", "x">>
    [] op = "solve" -> <<"s", "o", "l", "u", "t", "i", "o", "n", "s", "=", "0">>
    [] op = "system" -> <<"s", "y", "s", "t", "e", "m", "=", "0">>
    [] OTHER -> <<"P", "D", "F">>

\* The offset added to Date.now() in the id of a result line.
IdOffset(op) ==
  CASE op = "pdf" -> 0 [] op = "cdf" -> 1 [] op = "quantile" -> 2
    [] op = "sample" -> 3 [] op = "solve" -> 1 [] op = "system" -> 2
    [] OTHER -> 0

NoCas == [f |-> "cas", focusedId |-> 0, statPlots |-> <<>>, calls |-> {},
          alerts |-> 0, unhandled |-> 0, started |-> 0, failed |-> 0]

InitCas ==
  /\ expressions = <<NewLine(1, YX)>>
  /\ view = DefaultView
  /\ size = DefaultSize
  /\ now = MaxNow - 1
  /\ pointer = NoDrag
  /\ ops = 0
  /\ probe = NoCas

\* The position of the first line of arr from position i on with a text that
\* is not blank, 0 if there is none.
RECURSIVE FirstWithText(_, _)
FirstWithText(arr, i) ==
  IF i > Len(arr) THEN 0
  ELSE IF Trim(arr[i].src) # <<>> THEN i ELSE FirstWithText(arr, i + 1)

\* expressions.find(e => e.id === focusedId), as a position; 0 if none.
RECURSIVE FindId(_, _, _)
FindId(arr, id, i) ==
  IF i > Len(arr) THEN 0
  ELSE IF arr[i].id = id THEN i ELSE FindId(arr, id, i + 1)

\* getTargetExpr, as a position in the list (0 for undefined).  The lines of
\* the state `expressions` carry no field kind (it is a field of `compiled`),
\* so e.kind !== 'scalar' holds of every line.

getTargetExpr(arr, focusedId) ==
  The({ (IF focused # 0 /\ Trim(arr[focused].src) # <<>> THEN focused
         ELSE The({ (IF firstGraph # 0 THEN firstGraph
                     ELSE IF arr = <<>> THEN 0 ELSE 1) :
                       firstGraph \in {FirstWithText(arr, 1)} })) :
          focused \in {FindId(arr, focusedId, 1)} })

\* onFocus and onBlur of a line's input.
focusLine(i) ==
  /\ probe.focusedId # expressions[i].id
  /\ probe' = [probe EXCEPT !.focusedId = expressions[i].id]
  /\ UNCHANGED <<expressions, view, size, now, pointer, ops>>

blurLine ==
  /\ probe.focusedId # 0
  /\ probe' = [probe EXCEPT !.focusedId = 0]
  /\ UNCHANGED <<expressions, view, size, now, pointer, ops>>

\* A call in flight: what the async function holds while it awaits.
Call(op, id, src) == [n |-> probe.started + 1, op |-> op, id |-> id, src |-> src]

StartCall(c) ==
  probe' = [probe EXCEPT !.calls = @ \cup {c}, !.started = @ + 1]

\* onClick of Simplify, Expand, Factor and Partial Fractions, up to the await.
pressTransform(op) ==
  /\ probe.started < MaxCalls
  /\ \E t \in {getTargetExpr(expressions, probe.focusedId)} :
       /\ t # 0
       /\ expressions[t].src # <<>>
       /\ StartCall(Call(op, expressions[t].id, expressions[t].src))
  /\ UNCHANGED <<expressions, view, size, now, pointer, ops>>

\* onClick of Solve, up to the await.
pressSolve ==
  /\ probe.started < MaxCalls
  /\ \E t \in {getTargetExpr(expressions, probe.focusedId)} :
       /\ t # 0
       /\ expressions[t].src # <<>>
       /\ StartCall(Call("solve", expressions[t].id, expressions[t].src))
  /\ UNCHANGED <<expressions, view, size, now, pointer, ops>>

\* expressions.filter(e => e.visible && e.src.includes('=')), as positions.
SystemEqs(arr) == {i \in DOMAIN arr : arr[i].visible /\ Includes(arr[i].src, <<"=">>)}

\* onClick of Solve System, up to the await; casVars is left at 'x,y'.
pressSolveSystem ==
  /\ probe.started < MaxCalls
  /\ IF SystemEqs(expressions) = {}
     THEN probe' = [probe EXCEPT !.alerts = @ + 1, !.started = @ + 1]
     ELSE StartCall(Call("system", 0, <<>>))
  /\ UNCHANGED <<expressions, view, size, now, pointer, ops>>

\* computePdfAtX, computeCdfAtX, computeQuantile, sampleDistribution and
\* addStatPlot, up to `await ensureStats()`.
pressStat(op) ==
  /\ probe.started < MaxCalls
  /\ StartCall(Call(op, 0, <<>>))
  /\ UNCHANGED <<expressions, view, size, now, pointer, ops>>

Finish(c, ok) ==
  [probe EXCEPT !.calls = @ \ {c}, !.failed = IF ok THEN @ ELSE @ + 1]

\* writeCASResult(originalId, newSrc)

writeCASResult(arr, originalId, newSrc, clock) ==
  IF originalId = 0 THEN Append(arr, NewLine(clock, newSrc))
  ELSE PatchSrc(arr, originalId, newSrc)

\* The rest of a symbolic handler after the await: the result is written,
\* or the catch block shows the error.
completeCas(c, ok) ==
  /\ c.op \in Transforms \cup {"solve", "system"}
  /\ IF ok
     THEN /\ expressions' =
               (IF c.op \in Transforms
                THEN writeCASResult(expressions, c.id, ResultText(c.op), now)
                ELSE Append(expressions, NewLine(now + IdOffset(c.op), ResultText(c.op))))
          /\ probe' = Finish(c, TRUE)
     ELSE /\ probe' = [Finish(c, FALSE) EXCEPT !.alerts = @ + 1]
          /\ UNCHANGED expressions
  /\ UNCHANGED <<view, size, now, pointer, ops>>

\* The rest of a statistical function after the await.  The buttons call the
\* functions bare (onClick={computePdfAtX}): a rejection is handled by nobody.
completeStat(c, ok) ==
  /\ c.op \in StatResults
  /\ IF ok
     THEN /\ expressions' =
               Append(expressions, NewLine(now + IdOffset(c.op), ResultText(c.op)))
          /\ probe' = Finish(c, TRUE)
     ELSE /\ probe' = [Finish(c, FALSE) EXCEPT !.unhandled = @ + 1]
          /\ UNCHANGED expressions
  /\ UNCHANGED <<view, size, now, pointer, ops>>

\* The rest of addStatPlot after the await.
completePlot(c, ok, kind) ==
  /\ c.op = "plot"
  /\ IF ok
     THEN probe' = [Finish(c, TRUE) EXCEPT
                      !.statPlots = Append(@, [id |-> <<now, c.n>>, type |-> kind])]
     ELSE probe' = [Finish(c, FALSE) EXCEPT !.unhandled = @ + 1]
  /\ UNCHANGED <<expressions, view, size, now, pointer, ops>>

\* The clock moves on.
Tick ==
  /\ now < MaxNow
  /\ now' = now + 1
  /\ UNCHANGED <<expressions, view, size, pointer, ops, probe>>

NextCas ==
  \/ \E i \in DOMAIN expressions : focusLine(i)
  \/ blurLine
  \/ \E text \in CasTexts :
       Len(expressions) < MaxLines /\ addExpression(text) /\ UNCHANGED now
  \/ \E i \in DOMAIN expressions : \E src \in CasEdits : updateExprSrc(i, src)
  \/ \E i \in DOMAIN expressions : removeExpr(i)
  \/ \E op \in Transforms : pressTransform(op)
  \/ pressSolve
  \/ pressSolveSystem
  \/ \E op \in StatResults \cup {"plot"} : pressStat(op)
  \/ \E c \in probe.calls : \E ok \in BOOLEAN : completeCas(c, ok)
  \/ \E c \in probe.calls : \E ok \in BOOLEAN : completeStat(c, ok)
  \/ \E c \in probe.calls : \E ok \in BOOLEAN : \E kind \in PlotKinds :
       completePlot(c, ok, kind)
  \/ Tick

SpecCas == InitCas /\ [][NextCas]_vars

\* The two lists a provider's result goes to.
Lists == <<expressions, probe.statPlots>>

\* C21: a press that starts a provider call changes neither the expression
\* list nor the stat-plot list; a provider call that fails changes neither,
\* shows exactly one message and starts no call again.
C21_ProviderCalls ==
  [][ /\ (probe'.started # probe.started) => (Lists' = Lists)
      /\ (probe'.failed # probe.failed) =>
           /\ Lists' = Lists
           /\ probe'.alerts = probe.alerts + 1
           /\ probe'.calls \subseteq probe.calls
           /\ probe'.started = probe.started ]_vars

(***************************************************************************)
(* The pointer handlers of the canvas with everything their closure holds: *)
(* the effect of lines 707-785 installs them anew whenever size or labels  *)
(* change, each installation with variables of its own (dragging, last,    *)
(* pressTimer, downAt, downPos, moved), and it never clears a timer on     *)
(* cleanup.  viewRef is the snapshot of the viewport the handlers read; an *)
(* effect copies the viewport into it after a render.  probe holds         *)
(* viewRef, labels, the timers that are set, the closure of the installed  *)
(* handlers, and a record of what every press has led to.                  *)
(***************************************************************************)
MaxPresses == 2    \* pointerdown events in a run
MaxTicks == 3      \* the clock of a run with gestures stops after 250 ms * MaxTicks
LongPressMs == 650
TapMs == 300
MovePx == 5
NearPx == 18

\* The canvas position of a pointerdown, and the positions the pointer is
\* moved over.
DownPoint == [x |-> 150, y |-> 95]
GesturePoints ==
  { [x |-> 150, y |-> 95], [x |-> 153, y |-> 95], [x |-> 156, y |-> 95] }

\* A size the layout effect sets: the height is max(260, round(0.62 * width)).
SmallSize == [width |-> 400, height |-> 260]

\* Math.hypot(a.x - b.x, a.y - b.y) > limit, for whole numbers.
Beyond(a, b, limit) ==
  (a.x - b.x) * (a.x - b.x) + (a.y - b.y) * (a.y - b.y) > limit * limit

\* The variables of a fresh installation of the handlers.
FreshClosure(sz) ==
  [downAt |-> 0, downPos |-> [x |-> 0, y |-> 0], moved |-> FALSE, size |-> sz]

InitGesture ==
  /\ expressions = <<NewLine(1, YX)>>
  /\ view = DefaultView
  /\ size = DefaultSize
  /\ now = 1000
  /\ pointer = NoDrag
  /\ ops = 0
  /\ probe = [ f |-> "gesture", viewRef |-> DefaultView, labels |-> <<>>,
               copies |-> 0, closure |-> FreshClosure(DefaultSize),
               pressTimer |-> <<0>>, installed |-> <<DefaultSize, <<>>>>,
               timers |-> {}, held |-> 0, at |-> DownPoint, left |-> FALSE,
               presses |-> <<>>, wheelAt |-> DownPoint ]

\* The installation in force, and the press the pointer events belong to.
Gen == Len(probe.pressTimer)
CurPress == Len(probe.presses)

\* Timers whose delay has elapsed run before anything else that happens at
\* that time.
DueTimers == {tm \in probe.timers : tm.due <= now}

\* clearPress() of the installation g: clearTimeout of its pressTimer.
ClearPress(timers, pressTimer, g) ==
  [ timers |-> {tm \in timers : tm.id # pressTimer[g]},
    pressTimer |-> [pressTimer EXCEPT ![g] = 0] ]

\* makeTransform({ ...viewRef.current, width: size.width, height: size.height })
\* with the size the closure was created with.
RefTransform(sz) == makeTransform(probe.viewRef, Int2Num(sz.width), Int2Num(sz.height))

\* addLabel(x, y) for the data point under the canvas position p.
LabelAt(sz, p) ==
  The({ [x |-> pxToX(t, Int2Num(p.x)), y |-> pxToY(t, Int2Num(p.y))] :
          t \in {RefTransform(sz)} })

\* The squared distance in pixels of the label L from p, as findNearestLabelPx
\* computes it.
LabelD2(sz, L, p) ==
  The({ The({ RAdd(RMul(dx, dx), RMul(dy, dy)) :
              dx \in {RSub(xToPx(t, L.x), Int2Num(p.x))},
              dy \in {RSub(yToPx(t, L.y), Int2Num(p.y))} }) :
        t \in {RefTransform(sz)} })

RECURSIVE NearestFrom(_, _, _, _, _, _)
\* The loop of findNearestLabelPx from label i on: the position of the best
\* label so far and its squared distance.
NearestFrom(sz, labels, p, i, best, bestD2) ==
  IF i > Len(labels) THEN [best |-> best, bestD2 |-> bestD2]
  ELSE The({ (IF RLt(d2, bestD2) THEN NearestFrom(sz, labels, p, i + 1, i, d2)
              ELSE NearestFrom(sz, labels, p, i + 1, best, bestD2)) :
             d2 \in {LabelD2(sz, labels[i], p)} })

\* findNearestLabelPx(px, py), as a position in labels; 0 for null.
findNearestLabelPx(sz, labels, p) ==
  IF labels = <<>> THEN 0
  ELSE The({ (IF RLe(r.bestD2, Int2Num(NearPx * NearPx)) THEN r.best ELSE 0) :
             r \in {NearestFrom(sz, labels, p, 1, 0, Inf(1))} })

RemoveAt(q, i) == SubSeq(q, 1, i - 1) \o SubSeq(q, i + 1, Len(q))

\* pointerdown at p.  The timer of an earlier press that is still set is
\* left running: pressTimer is overwritten without clearTimeout.
pressDown(p) ==
  /\ DueTimers = {}
  /\ probe.held < 2
  /\ Len(probe.presses) < MaxPresses
  /\ pointer' = [dragging |-> TRUE, last |-> p]
  /\ probe' =
       [probe EXCEPT
          !.closure = [@ EXCEPT !.downAt = now, !.downPos = p, !.moved = FALSE],
          !.timers = @ \cup { [id |-> CurPress + 1, due |-> now + LongPressMs,
                               pos |-> p, gen |-> Gen, size |-> probe.closure.size] },
          !.pressTimer = [@ EXCEPT ![Gen] = CurPress + 1],
          !.held = @ + 1,
          !.at = p,
          !.left = FALSE,
          !.presses =
             [i \in 1..Len(@) |-> [@[i] EXCEPT !.solo = FALSE]] \o
             << [ pos |-> p, downAt |-> now, solo |-> probe.held = 0, far |-> FALSE,
                  released |-> FALSE, out |-> {}, fired |-> 0, late |-> FALSE ] >>]
  /\ UNCHANGED <<expressions, view, size, now, ops>>

\* pointerup at p (a listener of window).
pressUp(p) ==
  /\ DueTimers = {}
  /\ probe.held > 0
  /\ pointer' = [pointer EXCEPT !.dragging = FALSE]
  /\ \E tap \in {~probe.closure.moved /\ now - probe.closure.downAt < TapMs} :
     \E near \in {IF tap THEN findNearestLabelPx(probe.closure.size, probe.labels, p)
                  ELSE 0} :
     \E cl \in {ClearPress(probe.timers, probe.pressTimer, Gen)} :
       probe' =
         [probe EXCEPT
            !.labels = IF ~tap THEN @
                       ELSE IF near # 0 THEN RemoveAt(@, near)
                       ELSE Append(@, LabelAt(probe.closure.size, p)),
            !.timers = cl.timers,
            !.pressTimer = cl.pressTimer,
            !.held = @ - 1,
            !.presses =
               [i \in 1..Len(@) |->
                  IF i # CurPress THEN @[i]
                  ELSE [@[i] EXCEPT !.released = TRUE,
                                    !.out = IF tap THEN @ \cup {"tap"} ELSE @]]]
  /\ UNCHANGED <<expressions, view, size, now, ops>>

\* pointermove to p while a pointer is down.  Without `dragging` the handler
\* returns after it has stored the hover position.
pressMove(p) ==
  /\ DueTimers = {}
  /\ probe.held > 0
  /\ p # probe.at
  /\ \E far \in {probe.held = 1 /\ CurPress > 0 /\ probe.presses[CurPress].solo
                 /\ now < probe.presses[CurPress].downAt + LongPressMs
                 /\ Beyond(p, probe.presses[CurPress].pos, MovePx)} :
     IF ~pointer.dragging
     THEN /\ probe' = [probe EXCEPT !.at = p, !.presses =
                         [i \in 1..Len(@) |->
                            IF i = CurPress /\ far THEN [@[i] EXCEPT !.far = TRUE]
                            ELSE @[i]]]
          /\ UNCHANGED <<view, pointer>>
     ELSE
       \E moved \in {probe.closure.moved \/ Beyond(p, pointer.last, MovePx)} :
       \E cl \in {IF probe.pressTimer[Gen] # 0 /\ moved
                  THEN ClearPress(probe.timers, probe.pressTimer, Gen)
                  ELSE [timers |-> probe.timers, pressTimer |-> probe.pressTimer]} :
       \E t \in {RefTransform(probe.closure.size)} :
       \E dx \in {RDiv(Int2Num(-(p.x - pointer.last.x)), t.xScale)} :
       \E dy \in {RDiv(Int2Num(p.y - pointer.last.y), t.yScale)} :
         /\ view' = [ xMin |-> RAdd(view.xMin, dx), xMax |-> RAdd(view.xMax, dx),
                      yMin |-> RAdd(view.yMin, dy), yMax |-> RAdd(view.yMax, dy) ]
         /\ pointer' = [pointer EXCEPT !.last = p]
         /\ probe' =
              [probe EXCEPT
                 !.closure = [@ EXCEPT !.moved = moved],
                 !.at = p,
                 !.timers = cl.timers,
                 !.pressTimer = cl.pressTimer,
                 !.presses =
                    [i \in 1..Len(@) |->
                       IF i # CurPress THEN @[i]
                       ELSE [@[i] EXCEPT
                               !.far = @ \/ far,
                               !.out = IF view' # view THEN @ \cup {"drag"} ELSE @]]]
  /\ UNCHANGED <<expressions, size, now>>

\* wheel at p; up is deltaY < 0.  The point under the cursor is computed
\* from viewRef, the zoom is applied to the latest viewport.
wheel(p, up) ==
  /\ DueTimers = {}
  /\ \E t \in {RefTransform(probe.closure.size)} :
       view' = zoomAround(view, pxToX(t, Int2Num(p.x)), pxToY(t, Int2Num(p.y)),
                          IF up THEN ZoomIn ELSE ZoomOut)
  /\ probe' = [probe EXCEPT !.wheelAt = p]
  /\ UNCHANGED <<expressions, size, now, pointer>>

\* pointerleave
onLeave ==
  /\ DueTimers = {}
  /\ ~probe.left
  /\ \E cl \in {ClearPress(probe.timers, probe.pressTimer, Gen)} :
       probe' = [probe EXCEPT !.timers = cl.timers, !.pressTimer = cl.pressTimer,
                              !.left = TRUE]
  /\ UNCHANGED <<expressions, view, size, now, pointer, ops>>

\* The callback of the long-press timer tm: it copies the coordinates, adds
\* a label, and calls clearPress() of the installation that set it.
longPress(tm) ==
  /\ tm \in DueTimers
  /\ \E cl \in {ClearPress(probe.timers \ {tm}, probe.pressTimer, tm.gen)} :
       probe' =
         [probe EXCEPT
            !.copies = @ + 1,
            !.labels = Append(@, LabelAt(tm.size, tm.pos)),
            !.timers = cl.timers,
            !.pressTimer = cl.pressTimer,
            !.presses =
               [i \in 1..Len(@) |->
                  IF i # tm.id THEN @[i]
                  ELSE [@[i] EXCEPT !.out = @ \cup {"long"}, !.fired = @ + 1,
                                    !.late = probe.held = 0 \/ probe.left]]]
  /\ UNCHANGED <<expressions, view, size, now, pointer, ops>>

\* The ResizeObserver reports another size of the canvas.
resize ==
  /\ size = DefaultSize
  /\ size' = SmallSize
  /\ UNCHANGED <<expressions, view, now, pointer, ops, probe>>

\* A render is committed and its effects run: viewRef takes the viewport,
\* and if size or labels have changed the handlers are removed and installed
\* anew, with fresh variables.
commit ==
  /\ probe.viewRef # view \/ probe.installed # <<size, probe.labels>>
  /\ IF probe.installed # <<size, probe.labels>>
     THEN /\ probe' = [probe EXCEPT !.viewRef = view,
                                    !.installed = <<size, probe.labels>>,
                                    !.closure = FreshClosure(size),
                                    !.pressTimer = Append(@, 0)]
          /\ pointer' = NoDrag
     ELSE /\ probe' = [probe EXCEPT !.viewRef = view]
          /\ UNCHANGED pointer
  /\ UNCHANGED <<expressions, view, size, now, ops>>

\* 250 ms pass.
TickGesture ==
  /\ DueTimers = {}
  /\ now < 1000 + 250 * MaxTicks
  /\ now' = now + 250
  /\ UNCHANGED <<expressions, view, size, pointer, ops, probe>>

NextGesture ==
  \/ pressDown(DownPoint)
  \/ pressUp(probe.at)
  \/ \E p \in GesturePoints : ops < MaxOps /\ pressMove(p) /\ ops' = ops + 1
  \/ onLeave
  \/ \E tm \in probe.timers : longPress(tm)
  \/ resize
  \/ commit
  \/ TickGesture

SpecGesture == InitGesture /\ [][NextGesture]_vars

\* The canvas positions of wheel events.
WheelPoints == {DownPoint, [x |-> 450, y |-> 285]}

\* Wheel and drag events and the renders in between, without the clock.
NextWheel ==
  \/ \E p \in WheelPoints : \E up \in BOOLEAN :
       ops < MaxOps /\ wheel(p, up) /\ ops' = ops + 1
  \/ Len(probe.presses) < 1 /\ pressDown(DownPoint)
  \/ \E p \in WheelPoints : ops < MaxOps /\ pressMove(p) /\ ops' = ops + 1
  \/ commit

SpecWheel == InitGesture /\ [][NextWheel]_vars

\* C22: a press whose pointer has been more than 5 px away from the press
\* position never gets its long-press, in however many move events the
\* distance was covered; a press held without such a movement gets exactly
\* one long-press once the delay has elapsed.  Presses made with a single
\* pointer are looked at.
C22_LongPress ==
  \A i \in DOMAIN probe.presses :
    \E pr \in {probe.presses[i]} :
      /\ pr.far => pr.fired = 0
      /\ pr.fired <= 1
      /\ (pr.solo /\ ~pr.far /\ ~pr.released /\ ~probe.left
            /\ now > pr.downAt + LongPressMs /\ DueTimers = {}) => pr.fired = 1

\* C28: a press leads to at most one of drag, long-press and tap, and no
\* long-press fires once the pointer is up or has left the canvas.
C28_OneOutcome ==
  \A i \in DOMAIN probe.presses :
    /\ Cardinality(probe.presses[i].out) <= 1
    /\ ~probe.presses[i].late

\* C23: the ids of the lines of the list are pairwise distinct, whatever
\* additions, results, edits and deletions have been made.
C23_DistinctIds ==
  \A i, j \in DOMAIN expressions :
    expressions[i].id = expressions[j].id => i = j

\* C24: a symbolic transform is started on the line that is focused when the
\* button is pressed and replaces the text of that line; pressed with no line
\* focused it is bound to no line, and its result is added as a new line at
\* the end of the list while the lines already there stay as they are.
C24_TransformTarget ==
  [][ /\ \A c \in probe'.calls \ probe.calls :
           c.op \in Transforms =>
             \E f \in {FindId(expressions, probe.focusedId, 1)} :
               /\ (f # 0 /\ Trim(expressions[f].src) # <<>>) => c.id = probe.focusedId
               /\ (f = 0) => c.id = 0
      /\ \A c \in probe.calls \ probe'.calls :
           (c.op \in Transforms /\ probe'.failed = probe.failed) =>
             IF c.id = 0
             THEN /\ Len(expressions') = Len(expressions) + 1
                  /\ SubSeq(expressions', 1, Len(expressions)) = expressions
                  /\ expressions'[Len(expressions')].src = ResultText(c.op)
             ELSE expressions' = PatchSrc(expressions, c.id, ResultText(c.op)) ]_vars

\* C30: when a symbolic transform completes, its result replaces the text of
\* the line it was started on only if that line still has the text the call
\* was started with; otherwise every line stays as it is, and if the line is
\* gone it is not put back and the result is not dropped without a trace (a
\* line is added or a message is shown).
C30_NoLostEdit ==
  [][ \A c \in probe.calls \ probe'.calls :
        (c.op \in Transforms /\ c.id # 0 /\ probe'.failed = probe.failed) =>
          \E t \in {FindId(expressions, c.id, 1)} :
            IF t # 0 /\ expressions[t].src = c.src
            THEN expressions' = PatchSrc(expressions, c.id, ResultText(c.op))
            ELSE /\ Len(expressions') >= Len(expressions)
                 /\ SubSeq(expressions', 1, Len(expressions)) = expressions
                 /\ (t = 0) =>
                      /\ FindId(expressions', c.id, 1) = 0
                      /\ Len(expressions') > Len(expressions)
                           \/ probe'.alerts > probe.alerts ]_vars

\* A wheel event is the step that counts as an operation and leaves the
\* pointer where it is.
WheelStep == ops' # ops /\ probe'.at = probe.at

\* The pixel distance allowed for rounding: with a mantissa of Precision bits
\* a pixel position near 450 is known to about 2 px after one operation.
PixelTol == Int2Num(8)

\* C29: at every wheel event the data point that is under the cursor in the
\* viewport being zoomed is at the same pixel (up to rounding) in the zoomed
\* viewport, also when events are handled before the last one is rendered.
C29_CursorFixed ==
  [][ WheelStep =>
        \E t \in {Transform(view)} :
        \E t2 \in {makeTransform(view', Int2Num(size.width), Int2Num(size.height))} :
        \E p \in {probe'.wheelAt} :
          /\ Within(xToPx(t2, pxToX(t, Int2Num(p.x))), Int2Num(p.x), PixelTol)
          /\ Within(yToPx(t2, pxToY(t, Int2Num(p.y))), Int2Num(p.y), PixelTol) ]_vars

\* The value the draw effect gets from the explicit line i at x: the closure
\* reads the variable ans when it is called, after the loop has ended.
PlottedValue(cs, i, x) == CallFn(cs[i], ansFinal, x)

\* C25: an explicit line that reads ans evaluates with the value the register
\* has after the lines before it; scalar lines after it do not change its
\* values.
C25_AnsOfPrefix ==
  \E cs \in {compiled} :
    \A i \in ExplicitsShown(cs) :
      Includes(expressions[i].src, N_ans) =>
        PlottedValue(cs, i, Int2Num(1)) = CallFn(cs[i], LastFinite(cs, i - 1), Int2Num(1))

(***************************************************************************)
(* The analysis of two curves while the user restricts their domains.      *)
(***************************************************************************)
\* The values typed into the two inputs of "Restrict x in [min, max]".
DomainMins == {Int2Num(-1)}
DomainMaxs == {Lit(1, 2)}

PatchDomain(arr, id, dom) ==
  [i \in DOMAIN arr |-> IF arr[i].id = id THEN [arr[i] EXCEPT !.domain = dom] ELSE arr[i]]

\* onChange of the checkbox "Restrict x in [".
toggleDomainUse(i) ==
  /\ expressions' = PatchDomain(expressions, expressions[i].id,
                                [expressions[i].domain EXCEPT !.use = ~@])
  /\ UNCHANGED <<view, size, now, pointer, ops, probe>>

\* onChange of the input of the lower bound.
setDomainMin(i, v) ==
  /\ expressions' = PatchDomain(expressions, expressions[i].id,
                                [expressions[i].domain EXCEPT !.min = v, !.use = TRUE])
  /\ UNCHANGED <<view, size, now, pointer, ops, probe>>

\* onChange of the input of the upper bound.
setDomainMax(i, v) ==
  /\ expressions' = PatchDomain(expressions, expressions[i].id,
                                [expressions[i].domain EXCEPT !.max = v, !.use = TRUE])
  /\ UNCHANGED <<view, size, now, pointer, ops, probe>>

InitDomain ==
  /\ expressions = <<NewLine(1, YX), NewLine(2, YXX)>>
  /\ view = ViewOver(-2, 2)
  /\ size = DefaultSize
  /\ now = 3
  /\ pointer = NoDrag
  /\ ops = 0
  /\ probe = NoProbe

NextDomain ==
  \/ \E i \in DOMAIN expressions : toggleVisible(i)
  \/ \E i \in DOMAIN expressions : toggleDomainUse(i)
  \/ \E i \in DOMAIN expressions : \E v \in DomainMins : setDomainMin(i, v)
  \/ \E i \in DOMAIN expressions : \E v \in DomainMaxs : setDomainMax(i, v)

SpecDomain == InitDomain /\ [][NextDomain]_vars

\* The point p lies in the domain of every line with the id `id` that has its
\* restriction enabled.
InDomainOf(p, id) ==
  \A i \in DOMAIN expressions :
    (expressions[i].id = id /\ expressions[i].domain.use) =>
      RLe(expressions[i].domain.min, p.x) /\ RLe(p.x, expressions[i].domain.max)

\* C26: every point of the analysis lies in the restricted domain of every
\* curve it refers to; for an intersection, of both curves.
C26_PointsInDomain ==
  \E a \in {analysis} :
    \A k \in DOMAIN a.allPoints : \A id \in IdsOf(a.allPoints[k]) :
      InDomainOf(a.allPoints[k], id)

(***************************************************************************)
(* One cell of drawImplicit: the four corner values in the order f00, f10, *)
(* f11, f01 and the segments drawn for them.  The cell is the unit square; *)
(* the points are kept in data coordinates.                                *)
(***************************************************************************)
\* The values of F at a corner; evalF returns NaN for a non-finite value.
CornerValues == {Int2Num(-1), Int2Num(0), Int2Num(1), NaN}

\* const s = (a, b) => a * b <= 0
SignChange(a, b) == RLe(RMul(a, b), Int2Num(0))

\* interp(x1, y1, f1, x2, y2, f2), without the transform to pixels.
interp(x1, y1, f1, x2, y2, f2) ==
  The({ [ x |-> RAdd(x1, RMul(a, RSub(x2, x1))), y |-> RAdd(y1, RMul(a, RSub(y2, y1))) ] :
        a \in { IF RSub(f1, f2) = Int2Num(0) THEN Lit(1, 2) ELSE RDiv(f1, RSub(f1, f2)) } })

\* The body of the inner loop for one cell: the crossing points found and the
\* number of segments drawn; a NaN corner skips the cell.
CellOf(f00, f10, f11, f01) ==
  IF \E v \in {f00, f10, f11, f01} : v.k = "nan"
  THEN [pts |-> <<>>, segments |-> 0]
  ELSE The({ [ pts |-> pts,
               segments |-> IF Len(pts) = 2 THEN 1 ELSE IF Len(pts) = 4 THEN 2 ELSE 0 ] :
             pts \in { (IF SignChange(f00, f10)
                        THEN <<interp(Int2Num(0), Int2Num(0), f00, Int2Num(1), Int2Num(0), f10)>>
                        ELSE <<>>) \o
                       (IF SignChange(f10, f11)
                        THEN <<interp(Int2Num(1), Int2Num(0), f10, Int2Num(1), Int2Num(1), f11)>>
                        ELSE <<>>) \o
                       (IF SignChange(f11, f01)
                        THEN <<interp(Int2Num(1), Int2Num(1), f11, Int2Num(0), Int2Num(1), f01)>>
                        ELSE <<>>) \o
                       (IF SignChange(f01, f00)
                        THEN <<interp(Int2Num(0), Int2Num(1), f01, Int2Num(0), Int2Num(0), f00)>>
                        ELSE <<>>) } })

InitCell ==
  /\ expressions = <<NewLine(1, <<"s", "i", "n", "(", "x", ")">>)>>
  /\ view = DefaultView
  /\ size = DefaultSize
  /\ now = 2
  /\ pointer = NoDrag
  /\ ops = 0
  /\ \E f00 \in CornerValues, f10 \in CornerValues, f11 \in CornerValues,
        f01 \in CornerValues :
       probe = [f |-> "cell", f00 |-> f00, f10 |-> f10, f11 |-> f11, f01 |-> f01,
                done |-> FALSE, pts |-> <<>>, segments |-> 0]

CellProbe ==
  /\ probe.f = "cell"
  /\ ~probe.done
  /\ \E r \in {CellOf(probe.f00, probe.f10, probe.f11, probe.f01)} :
       probe' = [probe EXCEPT !.done = TRUE, !.pts = r.pts, !.segments = r.segments]
  /\ UNCHANGED <<expressions, view, size, now, pointer, ops>>

NextCell == CellProbe

SpecCell == InitCell /\ [][NextCell]_vars

Corners == {probe.f00, probe.f10, probe.f11, probe.f01}

\* C27: a cell with four finite corner values, one of them above and one
\* below zero, has 2 or 4 crossing edges and gets at least one segment.
C27_CellSegments ==
  ( /\ probe.done
    /\ \A v \in Corners : IsFinite(v)
    /\ \E v \in Corners : RLt(Int2Num(0), v)
    /\ \E v \in Corners : RLt(v, Int2Num(0)) ) =>
      /\ Len(probe.pts) \in {2, 4}
      /\ probe.segments >= 1

=============================================================================
